---- MODULE Spec2Model ----
(***************************************************************************)
(* State-machine model of the simulation core of game-boilerplate:         *)
(* the input store and InputSystem handlers, CameraSystem, PlayerSystem,   *)
(* the Engine's per-frame update callback and the Loop.                    *)
(*                                                                         *)
(* Numbers are fixed point.  Lengths, speeds and vector components are in  *)
(* thousandths (U), angles in units of 1/100000 rad (AngleUnit), time in   *)
(* ticks of 1/6000 s, so that 1/60 s is 100 ticks and 1 ms is 6 ticks.     *)
(* Divisions truncate toward zero.                                         *)
(***************************************************************************)
EXTENDS Integers, Sequences, FiniteSets, TLC

VARIABLES
    input,      \* useInputStore: actions, mouseDelta, isPointerLocked
    camStore,   \* useCameraStore: mode, enabled, sensitivity
    cam,        \* CameraSystem fields and the THREE camera it drives
    body,       \* the player's rigid body: translation, linvel, rotation
    mesh,       \* the player's visual: position, rotation.y, visible
    player,     \* PlayerSystem fields: cameraForward, cameraRight
    loop,       \* Loop fields and the browser's outstanding frame requests
    tick,       \* position of the running Loop.tick, if any
    sys,        \* InputSystem: registered listeners; the browser's pointer lock
    hist,       \* observations of the last operation (calls made, values read)
    physics     \* a PhysicsSystem of its own: world ticks, entities, their visuals

vars == <<input, camStore, cam, body, mesh, player, loop, tick, sys, hist, physics>>

----------------------------------------------------------------------------
(* Bounds of the model *)

\* events (handler calls and frames) a run of Spec, InputSpec or LoopSpec takes
MaxEvents == 7
\* largest accumulated mouse movement, per axis, in pixels
MaxMouse == 60
\* frames the player has had to settle on the ground before a run starts
SettleFrames == 25
\* calls of PlayerSystem.update in a run of PlayerSpec
MaxPlayerFrames == 1
\* calls of CameraSystem.update in a run of CameraSpec
MaxCameraFrames == 3
\* calls on the PhysicsSystem, and changes of a visual by the scene, in a run of PhysicsSpec
MaxPhysicsCalls == 4
\* frames in a run of RunSpec
MaxRunFrames == 24
\* callbacks registered per phase in a run of LoopSpec
MaxCallbacks == 2
\* calls and changes of the camera store in a run of GuardSpec
MaxGuardCalls == 3

----------------------------------------------------------------------------
(* Fixed-point arithmetic *)

U == 10 * 100
AngleUnit == 100 * U
TicksPerSecond == 6 * U

Abs(a) == IF a < 0 THEN -a ELSE a
Sign(a) == IF a > 0 THEN 1 ELSE IF a < 0 THEN -1 ELSE 0
Min(a, b) == IF a < b THEN a ELSE b
Max(a, b) == IF a > b THEN a ELSE b

\* a / b truncated toward zero (b > 0)
Div(a, b) == IF a >= 0 THEN a \div b ELSE -((-a) \div b)

\* fixed-point product of two thousandths
Mul(a, b) == Div(a * b, U)

RECURSIVE SqrtIter(_, _)
SqrtIter(n, x) ==
    LET y == (x + (n \div x)) \div 2
    IN  IF y >= x THEN x ELSE SqrtIter(n, y)

\* floor of the square root
ISqrt(n) == IF n <= 0 THEN 0 ELSE SqrtIter(n, n)

Vec3(a, b, c) == [x |-> a, y |-> b, z |-> c]
Vec2(a, b) == [x |-> a, y |-> b]
Zero3 == Vec3(0, 0, 0)

\* THREE.Vector3.lengthSq, in units of U*U
LengthSq3(v) == v.x * v.x + v.y * v.y + v.z * v.z
LengthSq2(v) == v.x * v.x + v.y * v.y
Length3(v) == ISqrt(LengthSq3(v))
Length2(v) == ISqrt(LengthSq2(v))

\* THREE.Vector3.normalize: divide by the length, the zero vector stays zero
Normalize3(v) ==
    LET len == Length3(v)
    IN  IF len = 0 THEN v
        ELSE Vec3(Div(v.x * U, len), Div(v.y * U, len), Div(v.z * U, len))

Normalize2(v) ==
    LET len == Length2(v)
    IN  IF len = 0 THEN v
        ELSE Vec2(Div(v.x * U, len), Div(v.y * U, len))

\* THREE.Vector3.multiplyScalar / addScaledVector with a fixed-point scalar
Scale3(v, s) == Vec3(Mul(v.x, s), Mul(v.y, s), Mul(v.z, s))
Scale2(v, s) == Vec2(Mul(v.x, s), Mul(v.y, s))
Add3(a, b) == Vec3(a.x + b.x, a.y + b.y, a.z + b.z)

----------------------------------------------------------------------------
(* Input store (state/InputState.ts) *)

Actions == {"FORWARD", "BACKWARD", "LEFT", "RIGHT", "JUMP", "RUN", "ACTION_1"}
Directional == {"FORWARD", "BACKWARD", "LEFT", "RIGHT"}

InputInit ==
    [actions |-> [a \in Actions |-> FALSE],
     mouseDelta |-> Vec2(0, 0),
     isPointerLocked |-> FALSE]

\* setAction clearing every other flag
SetActionExclusive(st, action, value) ==
    [st EXCEPT !.actions = [a \in Actions |-> IF a = action THEN value ELSE FALSE]]

\* setAction: actions: { ...state.actions, [action]: value }
SetAction(st, action, value) ==
    [st EXCEPT !.actions = [st.actions EXCEPT ![action] = value]]

\* setMouseDelta keeping only the latest movement
SetMouseDeltaLatest(st, dx, dy) == [st EXCEPT !.mouseDelta = Vec2(dx, dy)]

\* setMouseDelta accumulates
SetMouseDelta(st, dx, dy) ==
    [st EXCEPT !.mouseDelta = Vec2(st.mouseDelta.x + dx, st.mouseDelta.y + dy)]

ResetMouseDelta(st) == [st EXCEPT !.mouseDelta = Vec2(0, 0)]

\* setPointerLocked clearing every action on unlock
SetPointerLockedAll(st, isLocked) ==
    IF st.isPointerLocked # isLocked
    THEN IF ~isLocked
         THEN [st EXCEPT !.isPointerLocked = isLocked,
                         !.actions = [a \in Actions |-> FALSE]]
         ELSE [st EXCEPT !.isPointerLocked = isLocked]
    ELSE st

\* setPointerLocked without the test for a change
SetPointerLockedUnguarded(st, isLocked) ==
    IF ~isLocked
    THEN [st EXCEPT !.isPointerLocked = isLocked,
                    !.actions = [a \in Actions |->
                                   IF a \in Directional THEN FALSE ELSE st.actions[a]]]
    ELSE [st EXCEPT !.isPointerLocked = isLocked]

\* setPointerLocked: only on a change; on unlock the four movement actions are reset
SetPointerLocked(st, isLocked) ==
    IF st.isPointerLocked # isLocked
    THEN IF ~isLocked
         THEN [st EXCEPT !.isPointerLocked = isLocked,
                         !.actions = [a \in Actions |->
                                        IF a \in Directional THEN FALSE
                                        ELSE st.actions[a]]]
         ELSE [st EXCEPT !.isPointerLocked = isLocked]
    ELSE st

GetMouseDelta(st) == st.mouseDelta

----------------------------------------------------------------------------
(* Rigid body of the physics engine, as used through its interface *)

\* mass of the player's cuboid collider: 0.8 x 1.8 x 0.8 at density 1.0, in thousandths
PlayerMass == 1152

Linvel(b) == b.vel
Translation(b) == b.pos

\* RigidBody.setLinvel
SetLinvel(b, v) == [b EXCEPT !.vel = v]

\* RigidBody.applyImpulse: the velocity changes by impulse / mass at once
ApplyImpulse(b, imp) ==
    [b EXCEPT !.vel = Vec3(b.vel.x + Div(imp.x * U, PlayerMass),
                            b.vel.y + Div(imp.y * U, PlayerMass),
                            b.vel.z + Div(imp.z * U, PlayerMass))]

\* the body together with the calls made on it so far
Ctx(b) == [body |-> b, calls |-> <<>>]
CallSetLinvel(c, v) ==
    [body |-> SetLinvel(c.body, v),
     calls |-> Append(c.calls, [op |-> "setLinvel", v |-> v])]
CallApplyImpulse(c, v) ==
    [body |-> ApplyImpulse(c.body, v),
     calls |-> Append(c.calls, [op |-> "applyImpulse", v |-> v])]

----------------------------------------------------------------------------
(* PlayerSystem (systems/PlayerSystem.ts) *)

MoveSpeed == 5000
JumpForce == 7000
MaxSpeed == 10000
Damping == 900
PLAYER_HEIGHT == 1800
GROUND_THRESHOLD == 150
LOW_VELOCITY_THRESHOLD == 200

PlayerSystemInit ==
    [cameraForward |-> Vec3(0, 0, -U), cameraRight |-> Vec3(U, 0, 0)]

\* setCameraVectors
SetCameraVectors(ps, forward, right) ==
    [ps EXCEPT !.cameraForward = forward, !.cameraRight = right]

\* isGrounded: feet close to the ground and a low vertical speed
IsGrounded(b) ==
    LET feetPosition == Translation(b).y - Div(PLAYER_HEIGHT, 2)
        groundDistance == Max(0, feetPosition)
    IN  /\ groundDistance < GROUND_THRESHOLD
        /\ Abs(Linvel(b).y) < LOW_VELOCITY_THRESHOLD

\* the raw direction with Backward overriding Forward and Right overriding Left
LocalDirectionOverriding(actions) ==
    Vec3((IF actions["RIGHT"] THEN U ELSE IF actions["LEFT"] THEN -U ELSE 0),
         0,
         (IF actions["BACKWARD"] THEN U ELSE IF actions["FORWARD"] THEN -U ELSE 0))

\* the raw direction built from the four directional flags
LocalDirection(actions) ==
    Vec3(((IF actions["RIGHT"] THEN U ELSE 0) - (IF actions["LEFT"] THEN U ELSE 0)),
         0,
         ((IF actions["BACKWARD"] THEN U ELSE 0) - (IF actions["FORWARD"] THEN U ELSE 0)))

\* movementDirection without either normalisation
MovementDirectionUnnormalized(actions, camF, camR) ==
    LET raw == LocalDirection(actions)
    IN  Add3(Scale3(camF, -raw.z), Scale3(camR, raw.x))

\* movementDirection with the camera's forward vector scaled by movementDirection.z,
\* not by its negation
MovementDirectionUnnegated(actions, camF, camR) ==
    LET raw == LocalDirection(actions)
    IN  IF LengthSq3(raw) > 0
        THEN LET n == Normalize3(raw)
                 tempVec == Add3(Scale3(camF, n.z), Scale3(camR, n.x))
             IN  IF LengthSq3(tempVec) > 0 THEN Normalize3(tempVec) ELSE n
        ELSE raw

\* movementDirection before the impulse scaling
MovementDirection(actions, camF, camR) ==
    LET raw == LocalDirection(actions)
    IN  IF LengthSq3(raw) > 0
        THEN LET n == Normalize3(raw)
                 tempVec == Add3(Scale3(camF, -n.z), Scale3(camR, n.x))
             IN  IF LengthSq3(tempVec) > 0 THEN Normalize3(tempVec) ELSE n
        ELSE raw

\* moveSpeed * delta * 10, delta in ticks
ImpulseScale(delta) == Div(MoveSpeed * delta * 10, TicksPerSecond)

\* movementDirection.multiplyScalar(moveSpeed * delta * 10): scales movementDirection in place
MoveImpulse(actions, camF, camR, delta) ==
    Scale3(MovementDirection(actions, camF, camR), ImpulseScale(delta))

\* "Apply Movement Force/Impulse": horizontal components only
MoveStep(c, moveImpulse) ==
    CallApplyImpulse(c, Vec3(moveImpulse.x, 0, moveImpulse.z))

\* the clamp writing a zero vertical velocity
ClampStepFlat(c, currentVelocity) ==
    LET horizontalVelocity == Vec2(currentVelocity.x, currentVelocity.z)
    IN  IF LengthSq2(horizontalVelocity) > MaxSpeed * MaxSpeed
        THEN LET h == Scale2(Normalize2(horizontalVelocity), MaxSpeed)
             IN  CallSetLinvel(c, Vec3(h.x, 0, h.y))
        ELSE c

\* "Limit Linear Velocity": decided and computed from the velocity read at entry
ClampStep(c, currentVelocity) ==
    LET horizontalVelocity == Vec2(currentVelocity.x, currentVelocity.z)
    IN  IF LengthSq2(horizontalVelocity) > MaxSpeed * MaxSpeed
        THEN LET h == Scale2(Normalize2(horizontalVelocity), MaxSpeed)
             IN  CallSetLinvel(c, Vec3(h.x, currentVelocity.y, h.y))
        ELSE c

\* the jump applied whenever the flag is set, grounded or not
JumpStepUngrounded(c, actions, currentVelocity) ==
    IF actions["JUMP"]
    THEN CallApplyImpulse(
             CallSetLinvel(c, Vec3(currentVelocity.x, 0, currentVelocity.z)),
             Vec3(0, JumpForce, 0))
    ELSE c

\* the jump resetting the vertical velocity of the body as it then moves, not of the
\* velocity read at entry
JumpStepFresh(c, actions, currentVelocity) ==
    IF actions["JUMP"] /\ IsGrounded(c.body)
    THEN CallApplyImpulse(
             CallSetLinvel(c, Vec3(Linvel(c.body).x, 0, Linvel(c.body).z)),
             Vec3(0, JumpForce, 0))
    ELSE c

\* "Apply Jump Impulse": only when the flag is set and the body is grounded
JumpStep(c, actions, currentVelocity) ==
    IF actions["JUMP"] /\ IsGrounded(c.body)
    THEN CallApplyImpulse(
             CallSetLinvel(c, Vec3(currentVelocity.x, 0, currentVelocity.z)),
             Vec3(0, JumpForce, 0))
    ELSE c

\* the Jump action left as it is
JumpKept(st) == st

\* the Jump action is reset whenever it was set
JumpReset(st) == IF st.actions["JUMP"] THEN SetAction(st, "JUMP", FALSE) ELSE st

\* "Apply Damping": movementDirection (already scaled) is zero and the body is grounded
DampStep(c, moveImpulse, currentVelocity) ==
    IF LengthSq3(moveImpulse) = 0 /\ IsGrounded(c.body)
    THEN CallSetLinvel(c, Vec3(Mul(currentVelocity.x, Damping),
                               currentVelocity.y,
                               Mul(currentVelocity.z, Damping)))
    ELSE c

\* PlayerSystem.update: the body and input store afterwards, and the calls made
PlayerUpdate(b, st, ps, delta) ==
    IF ~b.exists
    THEN [body |-> b, input |-> st, calls |-> <<>>]
    ELSE LET currentVelocity == Linvel(b)
             moveImpulse == MoveImpulse(st.actions, ps.cameraForward, ps.cameraRight, delta)
             c1 == MoveStep(Ctx(b), moveImpulse)
             c2 == ClampStep(c1, currentVelocity)
             c3 == JumpStep(c2, st.actions, currentVelocity)
             c4 == DampStep(c3, moveImpulse, currentVelocity)
         IN  [body |-> c4.body, input |-> JumpReset(st), calls |-> c4.calls]


----------------------------------------------------------------------------
(* Angles and rotations *)

PI == 314159
TwoPi == 2 * PI
HalfPi == PI \div 2

\* sine of an angle in [-pi/2, pi/2] given in 1/10000 rad, by its series, in 1/10000
SinSeries(x) ==
    LET M(a, b) == Div(a * b, 10 * U)
        x2 == M(x, x)
        t3 == Div(M(x, x2), 6)
        t5 == Div(M(t3, x2), 20)
        t7 == Div(M(t5, x2), 42)
        t9 == Div(M(t7, x2), 72)
    IN  x - t3 + t5 - t7 + t9

\* Math.sin of an angle in AngleUnit, in thousandths (rounded)
Sin(a) ==
    LET r == a % TwoPi
        s == IF r >= PI THEN r - TwoPi ELSE r
        f == IF s > HalfPi THEN PI - s ELSE IF s < -HalfPi THEN -PI - s ELSE s
        v == SinSeries(Div(f, 10))
    IN  Div(v + 5 * Sign(v), 10)

Cos(a) == Sin(a + HalfPi)

\* A camera orientation yaw * pitch (yaw about world up applied to pitch about X)
\* is kept as its two angles.
Quat(yaw, pitch) == [yaw |-> yaw, pitch |-> pitch]

\* (0, 0, -1).applyQuaternion(q)
ForwardOf(q) ==
    Vec3(-Mul(Cos(q.pitch), Sin(q.yaw)), Sin(q.pitch), -Mul(Cos(q.pitch), Cos(q.yaw)))

\* (1, 0, 0).applyQuaternion(q)
RightOf(q) == Vec3(Cos(q.yaw), 0, -Sin(q.yaw))

\* new RAPIER.Quaternion(0, sin(y / 2), 0, cos(y / 2))
YRotation(yRotation) ==
    [x |-> 0, y |-> Sin(Div(yRotation, 2)), z |-> 0, w |-> Cos(Div(yRotation, 2))]

\* linear interpolation by a factor in thousandths
Lerp(a, b, t) == a + Mul(b - a, t)
Lerp3(a, b, t) == Vec3(Lerp(a.x, b.x, t), Lerp(a.y, b.y, t), Lerp(a.z, b.z, t))

\* Quaternion.slerp toward a target, on the two angles of the orientation
Slerp(q, target, t) == Quat(Lerp(q.yaw, target.yaw, t), Lerp(q.pitch, target.pitch, t))

----------------------------------------------------------------------------
(* Camera store (state/CameraState.ts) and CameraSystem (systems/CameraSystem.ts) *)

Sensitivity == 200
Fov == 75
Distance == 4000
Height == 1500
OffsetX == 0
FpHeight == 1600
RotationLerpFactor == 100
PositionLerpFactor == 100
MouseClamp == 20

CameraStoreInit ==
    [mode |-> "THIRD_PERSON", enabled |-> TRUE, sensitivity |-> Sensitivity]

SetMode(cs, mode) == [cs EXCEPT !.mode = mode]
SetEnabled(cs, enabled) == [cs EXCEPT !.enabled = enabled]
SetSensitivity(cs, sensitivity) == [cs EXCEPT !.sensitivity = sensitivity]

\* Math.PI / 2 - 0.1
PitchLimit == HalfPi - Div(AngleUnit, 10)

\* the Engine's camera: position (0, 2, 5), identity orientation.  The camera
\* system holds the physics system its constructor takes (CameraSystem.ts 32-34),
\* the one whose updateBodyYRotation it calls; Engine.ts 45 is written against
\* the earlier one-argument constructor.  CameraUpdateUnwired is update without it.
CameraInit ==
    [pitch |-> 0, yaw |-> 0,
     targetPosition |-> Vec3(0, 2 * U, 5 * U),
     targetQuaternion |-> Quat(0, 0),
     position |-> Vec3(0, 2 * U, 5 * U),
     quaternion |-> Quat(0, 0),
     fov |-> Fov,
     playerPosition |-> Zero3]

\* getForwardVector / getRightVector: from the rendered orientation, flattened, unit length
Flat(v) == Vec3(v.x, 0, v.z)
GetForwardVector(c) == Normalize3(Flat(ForwardOf(c.quaternion)))
GetRightVector(c) == Normalize3(Flat(RightOf(c.quaternion)))

\* the mouse delta taken whole
SmoothDeltaWhole(d) == d

\* Math.sign(d) * Math.min(Math.abs(d), 20)
SmoothDelta(d) == Sign(d) * Min(Abs(d), MouseClamp)

\* the pitch clamped at the vertical itself
ClampPitchVertical(p) == Max(-HalfPi, Min(HalfPi, p))

\* Math.max(-Math.PI / 2 + 0.1, Math.min(Math.PI / 2 - 0.1, pitch))
ClampPitch(p) == Max(-PitchLimit, Min(PitchLimit, p))

\* updateRotation: nothing on a zero delta; else the angles and the target orientation
UpdateRotation(c, mouseDelta, sensitivity) ==
    IF mouseDelta.x = 0 /\ mouseDelta.y = 0
    THEN c
    ELSE LET yaw == c.yaw - SmoothDelta(mouseDelta.x) * sensitivity
             pitch == ClampPitch(c.pitch - SmoothDelta(mouseDelta.y) * sensitivity)
         IN  [c EXCEPT !.yaw = yaw, !.pitch = pitch,
                       !.targetQuaternion = Quat(yaw, pitch)]

\* PhysicsSystem.updateBodyYRotation for the player's pair (a dynamic body)
UpdateBodyYRotation(b, yRotation) ==
    IF ~b.exists \/ b.fixed THEN b ELSE [b EXCEPT !.rot = YRotation(yRotation)]

\* updatePlayerOrientation: the visual's rotation.y
OrientMesh(m, c, mode) ==
    IF mode \in {"FIRST_PERSON", "THIRD_PERSON"} THEN [m EXCEPT !.rotY = c.yaw] ELSE m

\* updatePlayerOrientation: the body's rotation
OrientBody(b, c, mode) ==
    IF mode \in {"FIRST_PERSON", "THIRD_PERSON"} THEN UpdateBodyYRotation(b, c.yaw) ELSE b

\* updateFirstPersonCamera
UpdateFirstPersonCamera(c) ==
    [c EXCEPT !.targetPosition =
        Vec3(c.playerPosition.x, c.playerPosition.y + FpHeight, c.playerPosition.z)]

\* updateThirdPersonCamera
Negate3(v) == Vec3(-v.x, -v.y, -v.z)
Raise3(v, h) == Vec3(v.x, v.y + h, v.z)

\* cameraOffset.x += right * offsetX, only for a non-zero offsetX
SideOffset(cameraOffset, q) ==
    IF OffsetX # 0 THEN Add3(cameraOffset, Scale3(RightOf(q), OffsetX)) ELSE cameraOffset

\* cameraOffset: behind the target orientation by distance, raised by height
CameraOffset(q) ==
    SideOffset(Raise3(Scale3(Negate3(ForwardOf(q)), Distance), Height), q)

UpdateThirdPersonCamera(c) ==
    [c EXCEPT !.targetPosition = Add3(c.playerPosition, CameraOffset(c.targetQuaternion))]

\* every mode positioned as third person
UpdateCameraPositionBehind(c, mode) == UpdateThirdPersonCamera(c)

\* the branch on the mode in update
UpdateCameraPosition(c, mode) ==
    IF mode = "FIRST_PERSON" THEN UpdateFirstPersonCamera(c) ELSE UpdateThirdPersonCamera(c)

\* applySmoothing
ApplySmoothing(c) ==
    [c EXCEPT !.quaternion = Slerp(c.quaternion, c.targetQuaternion, RotationLerpFactor),
              !.position = Lerp3(c.position, c.targetPosition, PositionLerpFactor)]

\* playerMesh.visible = mode !== CameraMode.FirstPerson
MeshVisible(mode) == mode # "FIRST_PERSON"

\* update with the player's position left as the previous update read it
TrackPlayerStale(c, b) == [c EXCEPT !.fov = Fov]

\* CameraSystem.update: the camera, visual and body afterwards, and the delta it read
\* update, its first part: the fov and the player's position are taken over
TrackPlayer(c, b) == [c EXCEPT !.fov = Fov, !.playerPosition = Translation(b)]

\* update, after updateRotation gave c: orientation of the player, camera position,
\* smoothing, visibility
AfterRotation(c, cs, b, m, mouseDelta) ==
    [cam |-> ApplySmoothing(UpdateCameraPosition(c, cs.mode)),
     mesh |-> [OrientMesh(m, c, cs.mode) EXCEPT !.visible = MeshVisible(cs.mode)],
     body |-> OrientBody(b, c, cs.mode),
     ran |-> TRUE,
     read |-> mouseDelta]

\* update without the test of enabled
CameraUpdateAlways(c, cs, st, b, m) ==
    IF ~b.exists
    THEN [cam |-> c, mesh |-> m, body |-> b, ran |-> FALSE, read |-> Vec2(0, 0)]
    ELSE AfterRotation(UpdateRotation(TrackPlayer(c, b), GetMouseDelta(st), cs.sensitivity),
                       cs, b, m, GetMouseDelta(st))

\* update(playerBody, playerMesh, delta): nothing when disabled or without a body
CameraUpdate(c, cs, st, b, m) ==
    IF ~cs.enabled \/ ~b.exists
    THEN [cam |-> c, mesh |-> m, body |-> b, ran |-> FALSE, read |-> Vec2(0, 0)]
    ELSE AfterRotation(UpdateRotation(TrackPlayer(c, b), GetMouseDelta(st), cs.sensitivity),
                       cs, b, m, GetMouseDelta(st))

\* the call of this.physicsSystem.updateBodyYRotation is reached
ReachesPhysics(cs, b) ==
    cs.enabled /\ b.exists /\ cs.mode \in {"FIRST_PERSON", "THIRD_PERSON"}

\* update of a CameraSystem built by new CameraSystem(camera), as Engine.ts 45 builds
\* it: this.physicsSystem is undefined, so updatePlayerOrientation throws a TypeError
\* at its call of updateBodyYRotation, after the rotation and the visual's rotation.y
\* have been written and before the camera is positioned
CameraUpdateUnwired(c, cs, st, b, m) ==
    IF ~ReachesPhysics(cs, b) THEN CameraUpdate(c, cs, st, b, m)
    ELSE [cam |-> UpdateRotation(TrackPlayer(c, b), GetMouseDelta(st), cs.sensitivity),
          mesh |-> OrientMesh(m, UpdateRotation(TrackPlayer(c, b), GetMouseDelta(st),
                                                cs.sensitivity), cs.mode),
          body |-> b,
          ran |-> TRUE,
          read |-> GetMouseDelta(st)]

----------------------------------------------------------------------------
(* The scene's player (scenes/GameScene.ts) and PhysicsSystem.step *)

Gravity == 9810
LinearDamping == 500
GroundFriction == 600

IdentityRotation == [x |-> 0, y |-> 0, z |-> 0, w |-> U]

\* the player's body and visual as GameScene.addDebugObjects creates them
BodyInit ==
    [exists |-> TRUE, fixed |-> FALSE,
     pos |-> Vec3(0, Div(PLAYER_HEIGHT, 2) + Div(U, 2), 0),
     vel |-> Zero3,
     rot |-> IdentityRotation,
     friction |-> GroundFriction]

MeshInit ==
    [exists |-> TRUE,
     pos |-> Vec3(0, Div(PLAYER_HEIGHT, 2) + Div(U, 2), 0),
     rotY |-> 0,
     quaternion |-> IdentityRotation,
     visible |-> TRUE]

\* the physics engine's fixed timestep, 1/60 s
WorldDt == TicksPerSecond \div 60

\* height of the body's centre when its collider rests on the ground (top at y = 0)
RestHeight == Div(PLAYER_HEIGHT, 2)

\* a velocity component after one step of linear damping: v / (1 + dt * damping)
Damped(v) == Div(v * TicksPerSecond, TicksPerSecond + Mul(WorldDt, LinearDamping))

\* horizontal velocity after sliding friction mu over one step (contact = TRUE)
Rubbed(h, contact, mu) ==
    LET loss == Div(Mul(mu, Gravity) * WorldDt, TicksPerSecond)
        len == Length2(h)
    IN  IF ~contact THEN h
        ELSE IF len <= loss THEN Vec2(0, 0)
        ELSE Vec2(h.x - Div(h.x * loss, len), h.y - Div(h.y * loss, len))

\* world.step for the player's body: gravity, damping, integration, ground contact
WorldStep(b) ==
    IF ~b.exists \/ b.fixed THEN b
    ELSE LET vy == Damped(b.vel.y - Div(Gravity * WorldDt, TicksPerSecond))
             py == b.pos.y + Div(vy * WorldDt, TicksPerSecond)
             landed == py <= RestHeight
             h == Rubbed(Vec2(Damped(b.vel.x), Damped(b.vel.z)), landed, b.friction)
         IN  [b EXCEPT !.vel = Vec3(h.x, IF landed THEN 0 ELSE vy, h.y),
                       !.pos = Vec3(b.pos.x + Div(h.x * WorldDt, TicksPerSecond),
                                    IF landed THEN RestHeight ELSE py,
                                    b.pos.z + Div(h.y * WorldDt, TicksPerSecond))]

\* the synchronisation loop of step: a non-fixed body's transform onto its visual
SyncMesh(m, b) ==
    IF b.exists /\ ~b.fixed /\ m.exists
    THEN [m EXCEPT !.pos = Translation(b), !.quaternion = b.rot]
    ELSE m

----------------------------------------------------------------------------
(* PhysicsSystem: the entities it registers, step, and the rotation helpers *)

\* the visuals of the scene
Visuals == {"cube", "ground"}

\* a visual's transform: position and quaternion, as GameScene places them
VisualInit ==
    [v \in Visuals |->
        [pos |-> IF v = "cube" THEN MeshInit.pos ELSE Vec3(0, -(U \div 10), 0),
         quaternion |-> IdentityRotation]]

\* no call made yet
NoCall ==
    [op |-> "none", mesh |-> "", delta |-> 0, yRotation |-> 0,
     quaternion |-> IdentityRotation, ret |-> FALSE]

\* new PhysicsSystem(): a world that has made no step, no entities
\* disposed: the scene that owns the visuals has been torn down
PhysicsInit ==
    [ticks |-> 0, entities |-> <<>>, visuals |-> VisualInit, call |-> NoCall,
     disposed |-> FALSE]

\* the body addBody creates: transform from the visual, at rest
NewBody(visual, fixed) ==
    [exists |-> TRUE, fixed |-> fixed, pos |-> visual.pos, vel |-> Zero3,
     rot |-> visual.quaternion, friction |-> GroundFriction]

\* addBody(mesh, bodyDesc, colliderDesc)
AddBody(p, v, fixed) ==
    [p EXCEPT !.entities = Append(@, [mesh |-> v, body |-> NewBody(p.visuals[v], fixed)])]

\* entities.find((e) => e.mesh === mesh): the index of the first pair, 0 for undefined
FindEntity(p, v) ==
    IF \E i \in DOMAIN p.entities : p.entities[i].mesh = v
    THEN CHOOSE i \in DOMAIN p.entities :
            /\ p.entities[i].mesh = v
            /\ \A j \in 1..(i - 1) : p.entities[j].mesh # v
    ELSE 0

\* world.step(eventQueue): one tick of the engine's timestep for every body
WorldStepAll(p) ==
    [p EXCEPT !.ticks = @ + 1,
              !.entities = [i \in DOMAIN p.entities |->
                               [p.entities[i] EXCEPT !.body = WorldStep(@)]]]

\* the synchronisation loop with the fixed bodies' visuals written as well
SyncAllOntoVisuals(p) ==
    [p EXCEPT !.visuals =
        [v \in Visuals |->
            IF FindEntity(p, v) # 0
            THEN [pos |-> Translation(p.entities[FindEntity(p, v)].body),
                  quaternion |-> p.entities[FindEntity(p, v)].body.rot]
            ELSE p.visuals[v]]]

\* the synchronisation loop of step: each body that is not fixed onto its visual
SyncOntoVisuals(p) ==
    [p EXCEPT !.visuals =
        [v \in Visuals |->
            IF FindEntity(p, v) # 0 /\ ~p.entities[FindEntity(p, v)].body.fixed
            THEN [pos |-> Translation(p.entities[FindEntity(p, v)].body),
                  quaternion |-> p.entities[FindEntity(p, v)].body.rot]
            ELSE p.visuals[v]]]

\* step(_delta): the delta is not used
PhysicsStep(p, delta) == SyncOntoVisuals(WorldStepAll(p))

\* GameScene.dispose: tracked resources and scene children go, the PhysicsSystem is
\* not called
GameSceneDispose(p) == [p EXCEPT !.disposed = TRUE]

\* PhysicsSystem.dispose: this.entities = []
PhysicsDispose(p) == [p EXCEPT !.entities = <<>>]

\* the guard of both rotation helpers: false is what they return when it fails
RotationWritable(p, v) ==
    FindEntity(p, v) # 0 /\ ~p.entities[FindEntity(p, v)].body.fixed

\* entity.body.setRotation(rotation, true) on the pair of visual v
SetEntityRotation(p, v, q) == [p EXCEPT !.entities[FindEntity(p, v)].body.rot = q]

\* updateBodyRotation without the test of isFixed
PhysicsUpdateBodyRotationAny(p, v, q) ==
    IF FindEntity(p, v) = 0 THEN p ELSE SetEntityRotation(p, v, q)

\* updateBodyRotation(mesh, quaternion)
PhysicsUpdateBodyRotation(p, v, q) ==
    IF ~RotationWritable(p, v) THEN p ELSE SetEntityRotation(p, v, q)

\* updateBodyYRotation(mesh, yRotation)
PhysicsUpdateBodyYRotation(p, v, yRotation) ==
    IF ~RotationWritable(p, v) THEN p ELSE SetEntityRotation(p, v, YRotation(yRotation))

----------------------------------------------------------------------------
(* The Engine's update callback (core/Engine.ts), one operation after the other *)

\* what a frame is seen to do: the operations in order, the mouse delta the camera
\* read, the resets of the mouse delta, the calls on the player's body
Observed ==
    [ops |-> <<>>, read |-> Vec2(0, 0), resets |-> 0, calls |-> <<>>]

World(st, cs, c, b, m, ps) ==
    [input |-> st, camStore |-> cs, cam |-> c, body |-> b, mesh |-> m, player |-> ps,
     obs |-> Observed]

Did(w, op) == [w.obs EXCEPT !.ops = Append(w.obs.ops, op)]

\* the world once step has moved the body to b
Stepped(w, b) ==
    [w EXCEPT !.body = b, !.mesh = SyncMesh(w.mesh, b), !.obs = Did(w, "step")]

\* this.physicsSystem.step(delta)
StepOp(w) == Stepped(w, WorldStep(w.body))

\* the world once the camera update has returned r
Filmed(w, r) ==
    [w EXCEPT !.cam = r.cam, !.mesh = r.mesh, !.body = r.body,
              !.obs = [Did(w, "camera") EXCEPT !.read = r.read]]

\* this._cameraSystem.update(playerBody, playerMesh, delta)
CameraOp(w) == Filmed(w, CameraUpdate(w.cam, w.camStore, w.input, w.body, w.mesh))

\* this._playerSystem.setCameraVectors(getForwardVector(), getRightVector())
VectorsOp(w) ==
    [w EXCEPT !.player = SetCameraVectors(w.player, GetForwardVector(w.cam),
                                          GetRightVector(w.cam)),
              !.obs = Did(w, "setCameraVectors")]

\* the world once the player update has returned r
Moved(w, r) ==
    [w EXCEPT !.body = r.body, !.input = r.input,
              !.obs = [Did(w, "player") EXCEPT !.calls = r.calls]]

\* this._playerSystem.update(playerBody, playerMesh, delta)
PlayerOp(w, delta) == Moved(w, PlayerUpdate(w.body, w.input, w.player, delta))

\* this.inputSystem.update(): resetMouseDelta
InputOp(w) ==
    [w EXCEPT !.input = ResetMouseDelta(w.input),
              !.obs = [Did(w, "input") EXCEPT !.resets = w.obs.resets + 1]]

\* the callback without the test of playerBody and playerMesh
PlayerPartUnguarded(w, delta) == PlayerOp(VectorsOp(CameraOp(w)), delta)

\* the part of the callback guarded by "if (playerBody && playerMesh)"
PlayerPart(w, delta) ==
    IF w.body.exists /\ w.mesh.exists
    THEN PlayerOp(VectorsOp(CameraOp(w)), delta)
    ELSE w

\* the update callback with the mouse delta reset before the camera has read it
EngineUpdateResetFirst(w, delta) ==
    PlayerPart(InputOp(StepOp(w)), delta)

\* the whole update callback
EngineUpdate(w, delta) ==
    InputOp(PlayerPart(StepOp(w), delta))

\* the world after n more frames of 1/60 s in which no event arrives
RECURSIVE Frames(_, _)
Frames(w, n) ==
    IF n = 0 \/ ~w.body.exists THEN w
    ELSE Frames(EngineUpdate([w EXCEPT !.obs = Observed], WorldDt), n - 1)

----------------------------------------------------------------------------
(* InputSystem (systems/InputSystem.ts, config/inputMappings.ts) *)

\* keyActionMap
KeyActionMap ==
    [c \in {"KeyW", "ArrowUp", "KeyS", "ArrowDown", "KeyA", "ArrowLeft", "KeyD",
            "ArrowRight", "Space", "ShiftLeft", "ShiftRight", "Mouse1"} |->
        CASE c \in {"KeyW", "ArrowUp"} -> "FORWARD"
          [] c \in {"KeyS", "ArrowDown"} -> "BACKWARD"
          [] c \in {"KeyA", "ArrowLeft"} -> "LEFT"
          [] c \in {"KeyD", "ArrowRight"} -> "RIGHT"
          [] c = "Space" -> "JUMP"
          [] c \in {"ShiftLeft", "ShiftRight"} -> "RUN"
          [] c = "Mouse1" -> "ACTION_1"]

Mapped(code) == code \in DOMAIN KeyActionMap

\* `Mouse${event.button + 1}`
ButtonKey(button) ==
    CASE button = 0 -> "Mouse1" [] button = 1 -> "Mouse2" [] OTHER -> "Mouse3"

\* onKeyDown without the test of event.repeat
OnKeyDownRepeating(st, code, repeat) ==
    IF Mapped(code) THEN SetAction(st, KeyActionMap[code], TRUE) ELSE st

OnKeyDown(st, code, repeat) ==
    IF repeat THEN st
    ELSE IF Mapped(code) THEN SetAction(st, KeyActionMap[code], TRUE) ELSE st

\* onKeyUp that leaves the flag as it is
OnKeyUpKept(st, code) == st

OnKeyUp(st, code) ==
    IF Mapped(code) THEN SetAction(st, KeyActionMap[code], FALSE) ELSE st

\* onPointerDown without the test of isPointerLocked
OnPointerDownUnlocked(st, button) ==
    IF Mapped(ButtonKey(button))
    THEN SetAction(st, KeyActionMap[ButtonKey(button)], TRUE) ELSE st

OnPointerDown(st, button) ==
    IF Mapped(ButtonKey(button)) /\ st.isPointerLocked
    THEN SetAction(st, KeyActionMap[ButtonKey(button)], TRUE) ELSE st

OnPointerUp(st, button) ==
    IF Mapped(ButtonKey(button))
    THEN SetAction(st, KeyActionMap[ButtonKey(button)], FALSE) ELSE st

OnPointerMove(st, dx, dy) ==
    IF st.isPointerLocked THEN SetMouseDelta(st, dx, dy) ELSE st

\* listeners start() registers; pointermove is added when the pointer becomes locked
StartListeners ==
    {"keydown", "keyup", "pointerdown", "pointerup", "pointerlockchange",
     "pointerlockerror", "click"}

InputSystemInit == [listeners |-> {}, domLocked |-> FALSE]

\* start()
InputStart(s) == [s EXCEPT !.listeners = s.listeners \cup StartListeners]

\* stop() without the removal of the pointermove listener
InputStopKeepingMove(s) ==
    [s EXCEPT !.listeners = s.listeners \cap {"pointermove"}, !.domLocked = FALSE]

\* stop(): every listener removed, the pointer lock released
InputStop(s) == [s EXCEPT !.listeners = {}, !.domLocked = FALSE]

\* onPointerLockChange: the move listener follows the lock
OnLockChangeListeners(s, isLocked) ==
    [s EXCEPT !.listeners = IF isLocked THEN s.listeners \cup {"pointermove"}
                            ELSE s.listeners \ {"pointermove"}]

----------------------------------------------------------------------------
(* Time and Loop (core/Loop.ts) *)

\* Math.min(delta, 0.1)
MaxDelta == TicksPerSecond \div 10

\* Time.update without the Math.min line
TimeUpdateUnclamped(t, gap) ==
    [previousTime |-> t.previousTime + gap, delta |-> gap, elapsed |-> t.elapsed + gap]

\* Time.update assigning delta to elapsed where the code adds it
TimeUpdateRestarting(t, gap) ==
    [previousTime |-> t.previousTime + gap,
     delta |-> Min(gap, MaxDelta),
     elapsed |-> Min(gap, MaxDelta)]

\* Time.update, called when performance.now() is gap later than previousTime;
\* previousTime counts from the construction of the Time object
TimeUpdate(t, gap) ==
    [previousTime |-> t.previousTime + gap,
     delta |-> Min(gap, MaxDelta),
     elapsed |-> t.elapsed + Min(gap, MaxDelta)]

\* rafId 0 stands for null; pending holds the outstanding requestAnimationFrame ids
LoopInit(updateCallbacks, renderCallbacks) ==
    [isRunning |-> FALSE, rafId |-> 0, pending |-> {}, nextId |-> 1,
     updateCallbacks |-> updateCallbacks, renderCallbacks |-> renderCallbacks,
     time |-> [previousTime |-> 0, delta |-> 0, elapsed |-> 0]]

\* requestAnimationFrame(this.tick), its id stored in rafId
RequestFrame(l) ==
    [l EXCEPT !.rafId = l.nextId, !.pending = l.pending \cup {l.nextId},
              !.nextId = l.nextId + 1]

\* start()
LoopStart(l) ==
    IF l.isRunning THEN l ELSE RequestFrame([l EXCEPT !.isRunning = TRUE])

\* stop()
LoopStop(l) ==
    IF ~l.isRunning \/ l.rafId = 0 THEN l
    ELSE [l EXCEPT !.pending = l.pending \ {l.rafId}, !.isRunning = FALSE, !.rafId = 0]

\* what a registered callback does to the Loop it was registered on
CallbackOnLoop(l, kind) ==
    CASE kind = "stop" -> LoopStop(l)
      [] kind = "start" -> LoopStart(l)
      [] OTHER -> l

\* a tick whose update phase is not followed by the render phase
AfterCallbackNoRender(l, pc, idx) ==
    IF pc = "update" /\ idx < Len(l.updateCallbacks)
    THEN [pc |-> "update", idx |-> idx + 1]
    ELSE [pc |-> "request", idx |-> 0]

\* the phase of tick after callback idx of phase pc has run
AfterCallback(l, pc, idx) ==
    IF pc = "update"
    THEN IF idx < Len(l.updateCallbacks) THEN [pc |-> "update", idx |-> idx + 1]
         ELSE IF Len(l.renderCallbacks) > 0 THEN [pc |-> "render", idx |-> 1]
         ELSE [pc |-> "request", idx |-> 0]
    ELSE IF idx < Len(l.renderCallbacks) THEN [pc |-> "render", idx |-> idx + 1]
         ELSE [pc |-> "request", idx |-> 0]

\* the phase tick enters after time.update()
FirstPhase(l) ==
    IF Len(l.updateCallbacks) > 0 THEN [pc |-> "update", idx |-> 1]
    ELSE AfterCallback(l, "update", 0)


----------------------------------------------------------------------------
(* Events: one action per handler call *)

worldVars == <<input, camStore, cam, body, mesh, player>>

Idle == tick.pc = "idle"

TickInit == [pc |-> "idle", idx |-> 0, log |-> <<>>]

\* what the last frame started from
PreInit == [input |-> InputInit, body |-> BodyInit, cam |-> CameraInit, switched |-> FALSE]

\* no keyboard event, no start and no stop
NoKey == [type |-> "none", code |-> "", repeat |-> FALSE]

\* moved: the pointer movement delivered under the lock since the last resetMouseDelta
\* press: since the last keydown of the Jump key that was not a repeat, the auto-repeat
\*        keydowns of it, and the player updates that read Jump set
\* down:  the codes mapped to Forward that are held, as far as the keyboard events
\*        delivered tell: those whose last event was a keydown
\* was:   down as it stood when the keyboard event in key arrived
HistInit ==
    [events |-> 0, obs |-> Observed, pre |-> PreInit, switched |-> FALSE, key |-> NoKey,
     moved |-> Vec2(0, 0), press |-> [repeats |-> 0, seen |-> 0], down |-> {},
     was |-> {}]

\* an event arrives while no tick is running; a run takes MaxEvents of them
More == Idle /\ hist.events < MaxEvents
Counted == [hist EXCEPT !.events = hist.events + 1, !.key = NoKey, !.was = {}]

\* the event a step delivers: a keyboard event, a pointer-button event (its code the
\* key built from the button), a pointerlockerror event ("lockerror"), or a call of
\* start ("start") or of stop ("stop") on the InputSystem
Keyed(type, code, repeat) ==
    [Counted EXCEPT !.key = [type |-> type, code |-> code, repeat |-> repeat]]

\* the two codes keyActionMap gives the Forward action
ForwardCodes == {c \in DOMAIN KeyActionMap : KeyActionMap[c] = "FORWARD"}

\* a keydown event reaches handleKeyDown
KeyDown(code, repeat) ==
    /\ More
    /\ "keydown" \in sys.listeners
    /\ input' = OnKeyDown(input, code, repeat)
    /\ hist' = [Keyed("keydown", code, repeat) EXCEPT !.press =
                    IF ~Mapped(code) \/ KeyActionMap[code] # "JUMP" THEN hist.press
                    ELSE IF repeat THEN [hist.press EXCEPT !.repeats = hist.press.repeats + 1]
                    ELSE [repeats |-> 0, seen |-> 0],
                                                       !.down = hist.down \cup ({code} \cap ForwardCodes),
                                                       !.was = hist.down]
    /\ UNCHANGED <<camStore, cam, body, mesh, player, loop, tick, sys, physics>>

\* a keyup event reaches handleKeyUp
KeyUp(code) ==
    /\ More
    /\ "keyup" \in sys.listeners
    /\ input' = OnKeyUp(input, code)
    /\ hist' = [Keyed("keyup", code, FALSE) EXCEPT !.down = hist.down \ {code},
                                                     !.was = hist.down]
    /\ UNCHANGED <<camStore, cam, body, mesh, player, loop, tick, sys, physics>>

\* a pointerdown event reaches handlePointerDown
PointerDown(button) ==
    /\ More
    /\ "pointerdown" \in sys.listeners
    /\ input' = OnPointerDown(input, button)
    /\ hist' = Keyed("pointerdown", ButtonKey(button), FALSE)
    /\ UNCHANGED <<camStore, cam, body, mesh, player, loop, tick, sys, physics>>

\* a pointerup event reaches handlePointerUp
PointerUp(button) ==
    /\ More
    /\ "pointerup" \in sys.listeners
    /\ input' = OnPointerUp(input, button)
    /\ hist' = Keyed("pointerup", ButtonKey(button), FALSE)
    /\ UNCHANGED <<camStore, cam, body, mesh, player, loop, tick, sys, physics>>

\* a pointermove event reaches handlePointerMove
PointerMove(dx, dy) ==
    /\ More
    /\ "pointermove" \in sys.listeners
    /\ Abs(input.mouseDelta.x + dx) <= MaxMouse
    /\ Abs(input.mouseDelta.y + dy) <= MaxMouse
    /\ input' = OnPointerMove(input, dx, dy)
    /\ hist' = [Counted EXCEPT !.moved =
                    IF input.isPointerLocked
                    THEN Vec2(hist.moved.x + dx, hist.moved.y + dy) ELSE hist.moved]
    /\ UNCHANGED <<camStore, cam, body, mesh, player, loop, tick, sys, physics>>

\* the browser grants the pointer lock (a click asked for it) or releases it, and the
\* pointerlockchange event reaches onPointerLockChange
PointerLockChange(isLocked) ==
    /\ More
    /\ "pointerlockchange" \in sys.listeners
    /\ isLocked # sys.domLocked
    /\ isLocked => ("click" \in sys.listeners /\ ~input.isPointerLocked)
    /\ input' = SetPointerLocked(input, isLocked)
    /\ sys' = OnLockChangeListeners([sys EXCEPT !.domLocked = isLocked], isLocked)
    /\ hist' = Counted
    /\ UNCHANGED <<camStore, cam, body, mesh, player, loop, tick, physics>>

\* the browser refuses the pointer lock: onPointerLockError
PointerLockError ==
    /\ More
    /\ "pointerlockerror" \in sys.listeners
    /\ ~sys.domLocked
    /\ input' = SetPointerLocked(input, FALSE)
    /\ hist' = Keyed("lockerror", "", FALSE)
    /\ UNCHANGED <<camStore, cam, body, mesh, player, loop, tick, sys, physics>>

\* InputSystem.start()
InputSystemStart ==
    /\ More
    /\ sys' = InputStart(sys)
    /\ hist' = Keyed("start", "", FALSE)
    /\ UNCHANGED <<worldVars, loop, tick, physics>>

\* InputSystem.stop(): the listeners go, the lock is released, setPointerLocked(false)
InputSystemStop ==
    /\ More
    /\ sys' = InputStop(sys)
    /\ input' = SetPointerLocked(input, FALSE)
    /\ hist' = Keyed("stop", "", FALSE)
    /\ UNCHANGED <<camStore, cam, body, mesh, player, loop, tick, physics>>

\* InputSystem.update()
InputSystemUpdate ==
    /\ More
    /\ input' = ResetMouseDelta(input)
    /\ hist' = [Counted EXCEPT !.moved = Vec2(0, 0)]
    /\ UNCHANGED <<camStore, cam, body, mesh, player, loop, tick, sys, physics>>

\* Engine.start(): inputSystem.start(), loop.start()
EngineStart ==
    /\ More
    /\ sys' = InputStart(sys)
    /\ loop' = LoopStart(loop)
    /\ hist' = Keyed("start", "", FALSE)
    /\ UNCHANGED <<worldVars, tick, physics>>

\* Engine.stop(): inputSystem.stop(), loop.stop()
EngineStop ==
    /\ More
    /\ sys' = InputStop(sys)
    /\ input' = SetPointerLocked(input, FALSE)
    /\ loop' = LoopStop(loop)
    /\ hist' = Keyed("stop", "", FALSE)
    /\ UNCHANGED <<camStore, cam, body, mesh, player, tick, physics>>

\* useCameraStore.setMode, from the debug panel
SwitchMode(mode) ==
    /\ More
    /\ mode # camStore.mode
    /\ camStore' = SetMode(camStore, mode)
    /\ hist' = [Counted EXCEPT !.switched = (mode = "FIRST_PERSON")]
    /\ UNCHANGED <<input, cam, body, mesh, player, loop, tick, sys, physics>>

----------------------------------------------------------------------------
(* Loop: registration, start, stop, and tick one step at a time *)

\* loop.onUpdate(callback)
OnUpdate(kind) ==
    /\ More
    /\ Len(loop.updateCallbacks) < MaxCallbacks
    /\ loop' = [loop EXCEPT !.updateCallbacks = Append(loop.updateCallbacks, kind)]
    /\ hist' = Counted
    /\ UNCHANGED <<worldVars, tick, sys, physics>>

\* loop.onRender(callback)
OnRender(kind) ==
    /\ More
    /\ Len(loop.renderCallbacks) < MaxCallbacks
    /\ loop' = [loop EXCEPT !.renderCallbacks = Append(loop.renderCallbacks, kind)]
    /\ hist' = Counted
    /\ UNCHANGED <<worldVars, tick, sys, physics>>

\* loop.start() from outside a tick
LoopStartCall ==
    /\ More
    /\ loop' = LoopStart(loop)
    /\ hist' = Counted
    /\ UNCHANGED <<worldVars, tick, sys, physics>>

\* loop.stop() from outside a tick
LoopStopCall ==
    /\ More
    /\ loop' = LoopStop(loop)
    /\ hist' = Counted
    /\ UNCHANGED <<worldVars, tick, sys, physics>>

\* the loop once the browser has taken frame request f off its list
Fired(l, f) == [l EXCEPT !.pending = l.pending \ {f}]

\* tick up to and including time.update(): nothing when the loop is not running
Begun(l, gap) ==
    IF ~l.isRunning THEN l ELSE [l EXCEPT !.time = TimeUpdate(l.time, gap)]

\* tick without the test of isRunning on its first line
EnteredUnguarded(l) ==
    [pc |-> FirstPhase(l).pc, idx |-> FirstPhase(l).idx, log |-> <<>>]

\* where tick stands after time.update()
Entered(l) ==
    IF ~l.isRunning THEN TickInit
    ELSE [pc |-> FirstPhase(l).pc, idx |-> FirstPhase(l).idx, log |-> <<>>]

\* an outstanding animation frame fires: tick up to and including time.update()
TickBegin(gap) ==
    /\ More
    /\ \E f \in loop.pending :
         /\ loop' = Begun(Fired(loop, f), gap)
         /\ tick' = Entered(loop)
    /\ hist' = Counted
    /\ UNCHANGED <<worldVars, sys, physics>>

\* tick after callback idx of phase pc has run and left the loop as l
Advance(l, pc, idx) ==
    [pc |-> AfterCallback(l, pc, idx).pc, idx |-> AfterCallback(l, pc, idx).idx,
     log |-> Append(tick.log, <<pc, idx>>)]

\* a frame's result w becomes the state; h is the history it extends
Commit(w, h) ==
    /\ input' = w.input
    /\ cam' = w.cam
    /\ body' = w.body
    /\ mesh' = w.mesh
    /\ player' = w.player
    /\ hist' = [h EXCEPT !.obs = w.obs,
                         !.pre = [input |-> input, body |-> body, cam |-> cam,
                                  switched |-> hist.switched],
                         !.switched = FALSE,
                         !.moved = IF w.obs.resets > 0 THEN Vec2(0, 0) ELSE h.moved,
                         !.press.seen =
                            IF /\ \E i \in DOMAIN w.obs.ops : w.obs.ops[i] = "player"
                               /\ body.exists /\ input.actions["JUMP"]
                            THEN h.press.seen + 1 ELSE h.press.seen]

\* the update callback the Engine registered runs
EngineCallback ==
    /\ tick.pc = "update"
    /\ loop.updateCallbacks[tick.idx] = "engine"
    /\ Commit(EngineUpdate(World(input, camStore, cam, body, mesh, player),
                           loop.time.delta), hist)
    /\ tick' = Advance(loop, "update", tick.idx)
    /\ UNCHANGED <<camStore, loop, sys, physics>>

\* another registered update callback runs; it may call start() or stop() on the Loop
UpdateCallback ==
    /\ tick.pc = "update"
    /\ loop.updateCallbacks[tick.idx] # "engine"
    /\ loop' = CallbackOnLoop(loop, loop.updateCallbacks[tick.idx])
    /\ tick' = Advance(loop, "update", tick.idx)
    /\ UNCHANGED <<worldVars, sys, hist, physics>>

\* a registered render callback runs
RenderCallback ==
    /\ tick.pc = "render"
    /\ loop' = CallbackOnLoop(loop, loop.renderCallbacks[tick.idx])
    /\ tick' = Advance(loop, "render", tick.idx)
    /\ UNCHANGED <<worldVars, sys, hist, physics>>

\* the end of tick: this.rafId = requestAnimationFrame(this.tick)
TickEnd ==
    /\ tick.pc = "request"
    /\ loop' = RequestFrame(loop)
    /\ tick' = [tick EXCEPT !.pc = "idle", !.idx = 0]
    /\ UNCHANGED <<worldVars, sys, hist, physics>>

----------------------------------------------------------------------------
(* Spec: the Engine as main.ts builds it, with keyboard, pointer and debug-panel events *)

EngineCodes == {"KeyW", "Space"}
EngineMoves == {Vec2(30, -50)}
EngineGaps == {WorldDt}
Modes == {"FIRST_PERSON", "THIRD_PERSON"}

\* the world as the Engine's constructor leaves it: the player above the ground
Spawned ==
    World(InputInit, CameraStoreInit, CameraInit, BodyInit, MeshInit, PlayerSystemInit)

\* the Loop's clock after n frames of 1/60 s
Clock(n) ==
    [previousTime |-> n * WorldDt, delta |-> IF n = 0 THEN 0 ELSE WorldDt,
     elapsed |-> n * WorldDt]

\* the Engine right after construction, or started, left alone for n frames and stopped
Rested(n) ==
    /\ input = Frames(Spawned, n).input
    /\ camStore = CameraStoreInit
    /\ cam = Frames(Spawned, n).cam
    /\ body = Frames(Spawned, n).body
    /\ mesh = Frames(Spawned, n).mesh
    /\ player = Frames(Spawned, n).player
    /\ loop = [LoopInit(<<"engine">>, <<"draw">>) EXCEPT !.time = Clock(n)]
    /\ tick = TickInit
    /\ sys = InputSystemInit
    /\ hist = HistInit
    /\ physics = PhysicsInit

Init == \E n \in {0, SettleFrames} : Rested(n)

Next ==
    \/ EngineStart
    \/ EngineStop
    \/ \E code \in EngineCodes, repeat \in BOOLEAN : KeyDown(code, repeat)
    \/ \E code \in EngineCodes : KeyUp(code)
    \/ \E m \in EngineMoves : PointerMove(m.x, m.y)
    \/ \E isLocked \in BOOLEAN : PointerLockChange(isLocked)
    \/ \E mode \in Modes : SwitchMode(mode)
    \/ \E gap \in EngineGaps : TickBegin(gap)
    \/ EngineCallback
    \/ RenderCallback
    \/ TickEnd

Spec == Init /\ [][Next]_vars

----------------------------------------------------------------------------
(* InputSpec: the InputSystem alone, every mapped key and button and one unmapped *)

InputCodes ==
    {"KeyW", "ArrowUp", "KeyS", "ArrowDown", "KeyA", "ArrowLeft", "KeyD", "ArrowRight",
     "Space", "ShiftLeft", "ShiftRight", "KeyQ"}
InputButtons == {0, 1}
InputMoves == {Vec2(30, -20), Vec2(-30, 50)}

InputSpecInit == Rested(0)

InputSpecNext ==
    \/ InputSystemStart
    \/ InputSystemStop
    \/ \E code \in InputCodes, repeat \in BOOLEAN : KeyDown(code, repeat)
    \/ \E code \in InputCodes : KeyUp(code)
    \/ \E button \in InputButtons : PointerDown(button)
    \/ \E button \in InputButtons : PointerUp(button)
    \/ \E m \in InputMoves : PointerMove(m.x, m.y)
    \/ \E isLocked \in BOOLEAN : PointerLockChange(isLocked)
    \/ PointerLockError
    \/ InputSystemUpdate

InputSpec == InputSpecInit /\ [][InputSpecNext]_vars

----------------------------------------------------------------------------
(* LoopSpec: a Loop with callbacks that do nothing to it, stop it or start it *)

UpdateKinds == {"plain", "stop", "start"}
RenderKinds == {"plain", "stop"}
\* a frame on time, and a 500 ms pause
LoopGaps == {WorldDt, 30 * WorldDt}

LoopSpecInit ==
    /\ input = InputInit
    /\ camStore = CameraStoreInit
    /\ cam = CameraInit
    /\ body = BodyInit
    /\ mesh = MeshInit
    /\ player = PlayerSystemInit
    /\ loop = LoopInit(<<>>, <<>>)
    /\ tick = TickInit
    /\ sys = InputSystemInit
    /\ hist = HistInit
    /\ physics = PhysicsInit

LoopSpecNext ==
    \/ \E kind \in UpdateKinds : OnUpdate(kind)
    \/ \E kind \in RenderKinds : OnRender(kind)
    \/ LoopStartCall
    \/ LoopStopCall
    \/ \E gap \in LoopGaps : TickBegin(gap)
    \/ UpdateCallback
    \/ RenderCallback
    \/ TickEnd

LoopSpec == LoopSpecInit /\ [][LoopSpecNext]_vars

----------------------------------------------------------------------------
(* PlayerSpec: PlayerSystem.update on a body at any of these heights and velocities, *)
(* under any combination of the movement and jump flags                              *)

PlayerHeights ==
    {RestHeight, RestHeight + GROUND_THRESHOLD - 1, RestHeight + GROUND_THRESHOLD,
     BodyInit.pos.y}
PlayerVelocities ==
    {Zero3, Vec3(3 * U, 0, 4 * U), Vec3(6 * U, 199, 8 * U), Vec3(12 * U, 0, 9 * U),
     Vec3(12 * U, 200, -9 * U), Vec3(0, -3 * U, 0)}
PlayerActions == {"FORWARD", "BACKWARD", "LEFT", "RIGHT", "JUMP"}
PlayerHeadings == {0, PI \div 2, PI \div 3}

PlayerSpecInit ==
    \E y \in PlayerHeights, v \in PlayerVelocities, held \in SUBSET PlayerActions,
       yaw \in PlayerHeadings :
        /\ input = [InputInit EXCEPT !.actions = [a \in Actions |-> a \in held]]
        /\ camStore = CameraStoreInit
        /\ cam = CameraInit
        /\ body = [BodyInit EXCEPT !.pos = Vec3(0, y, 0), !.vel = v]
        /\ mesh = [MeshInit EXCEPT !.pos = Vec3(0, y, 0)]
        /\ player = SetCameraVectors(PlayerSystemInit,
                                     Normalize3(Flat(ForwardOf(Quat(yaw, 0)))),
                                     Normalize3(Flat(RightOf(Quat(yaw, 0)))))
        /\ loop = LoopInit(<<"engine">>, <<"draw">>)
        /\ tick = TickInit
        /\ sys = InputStart(InputSystemInit)
        /\ hist = HistInit
        /\ physics = PhysicsInit

\* one call of PlayerSystem.update(playerBody, playerMesh, 1/60)
PlayerFrame ==
    /\ hist.events < MaxPlayerFrames
    /\ Commit(PlayerOp(World(input, camStore, cam, body, mesh, player), WorldDt), Counted)
    /\ UNCHANGED <<camStore, loop, tick, sys, physics>>

PlayerSpecNext == PlayerFrame

PlayerSpec == PlayerSpecInit /\ [][PlayerSpecNext]_vars

----------------------------------------------------------------------------
(* CameraSpec: CameraSystem.update fed mouse deltas under several sensitivities *)

CameraDeltas == {Vec2(0, 0), Vec2(25, -25), Vec2(-3, 20), Vec2(0, -500)}
Sensitivities == {Sensitivity, U, 8 * U}

CameraSpecInit == Rested(0)

\* a frame's CameraSystem.update with mouse delta d accumulated, then the reset
CameraFrame(d) ==
    /\ hist.events < MaxCameraFrames
    /\ Commit(InputOp(CameraOp(World(SetMouseDelta(input, d.x, d.y), camStore, cam, body,
                                     mesh, player))), Counted)
    /\ UNCHANGED <<camStore, loop, tick, sys, physics>>

\* useCameraStore.setSensitivity(sensitivity)
ChangeSensitivity(s) ==
    /\ s # camStore.sensitivity
    /\ camStore' = SetSensitivity(camStore, s)
    /\ UNCHANGED <<input, cam, body, mesh, player, loop, tick, sys, hist, physics>>

CameraSpecNext ==
    \/ \E d \in CameraDeltas : CameraFrame(d)
    \/ \E s \in Sensitivities : ChangeSensitivity(s)

CameraSpec == CameraSpecInit /\ [][CameraSpecNext]_vars

----------------------------------------------------------------------------
(* RunSpec: from rest on the ground, Forward held, frame after frame of 1/60 s *)

RunHeadings == {0, PI \div 4, PI \div 2, PI}
Frictions == {0, GroundFriction}

\* the camera turned to yaw, its rendered orientation having caught up
Turned(c, yaw) ==
    [c EXCEPT !.yaw = yaw, !.targetQuaternion = Quat(yaw, c.pitch),
              !.quaternion = Quat(yaw, c.pitch)]

RunSpecInit ==
    \E yaw \in RunHeadings, mu \in Frictions :
        /\ input = SetAction(Frames(Spawned, SettleFrames).input, "FORWARD", TRUE)
        /\ camStore = CameraStoreInit
        /\ cam = Turned(Frames(Spawned, SettleFrames).cam, yaw)
        /\ body = [Frames(Spawned, SettleFrames).body EXCEPT !.friction = mu]
        /\ mesh = Frames(Spawned, SettleFrames).mesh
        /\ player = Frames(Spawned, SettleFrames).player
        /\ loop = [LoopInit(<<"engine">>, <<"draw">>) EXCEPT !.time = Clock(SettleFrames)]
        /\ tick = TickInit
        /\ sys = InputStart(InputSystemInit)
        /\ hist = HistInit
        /\ physics = PhysicsInit

\* a whole update callback at delta = 1/60
RunFrame ==
    /\ hist.events < MaxRunFrames
    /\ Commit(EngineUpdate(World(input, camStore, cam, body, mesh, player), WorldDt),
              Counted)
    /\ UNCHANGED <<camStore, loop, tick, sys, physics>>

RunSpecNext == RunFrame

RunSpec == RunSpecInit /\ [][RunSpecNext]_vars

----------------------------------------------------------------------------
(* PhysicsSpec: a PhysicsSystem on which the scene registers its visuals, with fixed *)
(* or dynamic bodies, steps the world and writes rotations                          *)

\* the deltas step is called with
PhysicsDeltas == {0, WorldDt, 6 * WorldDt}
\* where the scene puts a visual
PhysicsPlaces ==
    {[pos |-> Vec3(2 * U, 3 * U, 0), quaternion |-> YRotation(PI)],
     [pos |-> Vec3(0, RestHeight, -U), quaternion |-> IdentityRotation]}
\* the quaternions updateBodyRotation is given
PhysicsQuaternions == {[x |-> U, y |-> 0, z |-> 0, w |-> 0], YRotation(HalfPi)}
\* the angles updateBodyYRotation is given
PhysicsAngles == {HalfPi, -(PI \div 3)}

PhysicsSpecInit == LoopSpecInit

\* a call of operation op for visual v that returned ret
Call(op, v, ret) == [NoCall EXCEPT !.op = op, !.mesh = v, !.ret = ret]

\* the PhysicsSystem after a call, with the call and what it returned
Called(p, call) == [p EXCEPT !.call = call]

MorePhysics == hist.events < MaxPhysicsCalls

\* the scene registers a visual it has not registered yet
AddBodyCall(v, fixed) ==
    /\ MorePhysics
    /\ ~physics.disposed
    /\ FindEntity(physics, v) = 0
    /\ physics' = Called(AddBody(physics, v, fixed), Call("addBody", v, TRUE))
    /\ hist' = Counted
    /\ UNCHANGED <<worldVars, loop, tick, sys>>

\* the scene places a visual itself
PlaceVisual(v, place) ==
    /\ MorePhysics
    /\ ~physics.disposed
    /\ physics.visuals[v] # place
    /\ physics' = Called([physics EXCEPT !.visuals[v] = place], Call("place", v, TRUE))
    /\ hist' = Counted
    /\ UNCHANGED <<worldVars, loop, tick, sys>>

\* physicsSystem.step(delta)
PhysicsStepCall(delta) ==
    /\ MorePhysics
    /\ physics' = Called(PhysicsStep(physics, delta),
                         [Call("step", "", TRUE) EXCEPT !.delta = delta])
    /\ hist' = Counted
    /\ UNCHANGED <<worldVars, loop, tick, sys>>

\* physicsSystem.updateBodyRotation(mesh, quaternion)
UpdateBodyRotationCall(v, q) ==
    /\ MorePhysics
    /\ physics' = Called(PhysicsUpdateBodyRotation(physics, v, q),
                         [Call("updateBodyRotation", v, RotationWritable(physics, v))
                             EXCEPT !.quaternion = q])
    /\ hist' = Counted
    /\ UNCHANGED <<worldVars, loop, tick, sys>>

\* physicsSystem.updateBodyYRotation(mesh, yRotation)
UpdateBodyYRotationCall(v, yRotation) ==
    /\ MorePhysics
    /\ physics' = Called(PhysicsUpdateBodyYRotation(physics, v, yRotation),
                         [Call("updateBodyYRotation", v, RotationWritable(physics, v))
                             EXCEPT !.yRotation = yRotation])
    /\ hist' = Counted
    /\ UNCHANGED <<worldVars, loop, tick, sys>>

\* Engine.loadScene(scene) with a scene active: this._activeScene.dispose()
LoadSceneCall ==
    /\ MorePhysics
    /\ ~physics.disposed
    /\ physics' = Called(GameSceneDispose(physics), Call("loadScene", "", TRUE))
    /\ hist' = Counted
    /\ UNCHANGED <<worldVars, loop, tick, sys>>

\* Engine.dispose(): the active scene's dispose(), then physicsSystem.dispose()
EngineDisposeCall ==
    /\ MorePhysics
    /\ ~physics.disposed
    /\ physics' = Called(PhysicsDispose(GameSceneDispose(physics)), Call("dispose", "", TRUE))
    /\ hist' = Counted
    /\ UNCHANGED <<worldVars, loop, tick, sys>>

PhysicsSpecNext ==
    \/ \E v \in Visuals, fixed \in BOOLEAN : AddBodyCall(v, fixed)
    \/ \E v \in Visuals, place \in PhysicsPlaces : PlaceVisual(v, place)
    \/ \E delta \in PhysicsDeltas : PhysicsStepCall(delta)
    \/ \E v \in Visuals, q \in PhysicsQuaternions : UpdateBodyRotationCall(v, q)
    \/ \E v \in Visuals, a \in PhysicsAngles : UpdateBodyYRotationCall(v, a)
    \/ LoadSceneCall
    \/ EngineDisposeCall

PhysicsSpec == PhysicsSpecInit /\ [][PhysicsSpecNext]_vars

----------------------------------------------------------------------------
(* GuardSpec: the update callback and the two systems' update on their own, for a   *)
(* scene whose player body or visual may be missing, the camera enabled or disabled, *)
(* the CameraSystem constructed with its PhysicsSystem or without it                *)

GuardActions == {"FORWARD", "JUMP"}
GuardDeltas == {Vec2(0, 0), Vec2(25, -25)}

\* a scene's cubeBody or cube that is not there
NoBody == [BodyInit EXCEPT !.exists = FALSE]
NoMesh == [MeshInit EXCEPT !.exists = FALSE]

GuardSpecInit ==
    \E b \in {Frames(Spawned, SettleFrames).body, NoBody},
       m \in {Frames(Spawned, SettleFrames).mesh, NoMesh},
       held \in SUBSET GuardActions, d \in GuardDeltas :
        /\ input = [InputInit EXCEPT !.actions = [a \in Actions |-> a \in held],
                                     !.mouseDelta = d, !.isPointerLocked = TRUE]
        /\ camStore = CameraStoreInit
        /\ cam = Frames(Spawned, SettleFrames).cam
        /\ body = b
        /\ mesh = m
        /\ player = Frames(Spawned, SettleFrames).player
        /\ loop = LoopInit(<<"engine">>, <<"draw">>)
        /\ tick = TickInit
        /\ sys = OnLockChangeListeners(InputStart(InputSystemInit), TRUE)
        /\ hist = [HistInit EXCEPT !.moved = d]
        /\ physics = PhysicsInit

MoreGuarded == hist.events < MaxGuardCalls

\* useCameraStore.setEnabled(enabled), from the debug panel
CameraEnable(enabled) ==
    /\ MoreGuarded
    /\ enabled # camStore.enabled
    /\ camStore' = SetEnabled(camStore, enabled)
    /\ hist' = [Counted EXCEPT !.obs = Observed]
    /\ UNCHANGED <<input, cam, body, mesh, player, loop, tick, sys, physics>>

\* one call of PlayerSystem.update(playerBody, playerMesh, 1/60)
GuardedPlayerUpdate ==
    /\ MoreGuarded
    /\ Commit(PlayerOp(World(input, camStore, cam, body, mesh, player), WorldDt), Counted)
    /\ UNCHANGED <<camStore, loop, tick, sys, physics>>

\* one call of CameraSystem.update(playerBody, playerMesh, 1/60); given a body, it is
\* given the body's visual too
GuardedCameraUpdate ==
    /\ MoreGuarded
    /\ body.exists => mesh.exists
    /\ Commit(CameraOp(World(input, camStore, cam, body, mesh, player)), Counted)
    /\ UNCHANGED <<camStore, loop, tick, sys, physics>>

\* the world once an update has thrown
Thrown(w) == [w EXCEPT !.obs = Did(w, "TypeError")]

\* one call of update on a CameraSystem that was constructed without a PhysicsSystem
UnwiredCameraUpdate ==
    /\ MoreGuarded
    /\ body.exists => mesh.exists
    /\ Commit(IF ReachesPhysics(camStore, body)
              THEN Thrown(Filmed(World(input, camStore, cam, body, mesh, player),
                                 CameraUpdateUnwired(cam, camStore, input, body, mesh)))
              ELSE Filmed(World(input, camStore, cam, body, mesh, player),
                          CameraUpdateUnwired(cam, camStore, input, body, mesh)),
              Counted)
    /\ UNCHANGED <<camStore, loop, tick, sys, physics>>

\* a whole update callback at delta = 1/60
GuardedFrame ==
    /\ MoreGuarded
    /\ Commit(EngineUpdate(World(input, camStore, cam, body, mesh, player), WorldDt),
              Counted)
    /\ UNCHANGED <<camStore, loop, tick, sys, physics>>

GuardSpecNext ==
    \/ \E enabled \in BOOLEAN : CameraEnable(enabled)
    \/ GuardedPlayerUpdate
    \/ GuardedCameraUpdate
    \/ UnwiredCameraUpdate
    \/ GuardedFrame

GuardSpec == GuardSpecInit /\ [][GuardSpecNext]_vars

----------------------------------------------------------------------------
(* Properties *)

\* horizontal speed of a body
Speed(b) == Length2(Vec2(b.vel.x, b.vel.z))

\* 0.01, the tolerance of a comparison of speeds
SpeedTolerance == U \div 100

\* the call that is the jump impulse
JumpImpulse == [op |-> "applyImpulse", v |-> Vec3(0, JumpForce, 0)]

\* the last frame applied the jump impulse
JumpFired == \E i \in DOMAIN hist.obs.calls : hist.obs.calls[i] = JumpImpulse

\* the callbacks of a whole tick of loop l, in order
WholeTick(l) ==
    [i \in 1..(Len(l.updateCallbacks) + Len(l.renderCallbacks)) |->
        IF i <= Len(l.updateCallbacks) THEN <<"update", i>>
        ELSE <<"render", i - Len(l.updateCallbacks)>>]

C2_ClampedToMaxSpeed ==
    (hist.events > 0 /\ Speed(hist.pre.body) > MaxSpeed)
        => Abs(Speed(body) - MaxSpeed) <= SpeedTolerance

\* C3 (PlayerSpec): the jump impulse is applied only in an update entered with Jump set
\* and the body grounded (feet less than 0.15 above the ground and a vertical speed
\* below 0.2 in magnitude); it follows a setLinvel that zeroes the vertical velocity,
\* so the body leaves with the vertical velocity jumpForce / mass.
C3_JumpOnlyGrounded ==
    \A i \in DOMAIN hist.obs.calls :
        hist.obs.calls[i] = JumpImpulse =>
            /\ hist.pre.input.actions["JUMP"]
            /\ Max(0, hist.pre.body.pos.y - Div(PLAYER_HEIGHT, 2)) < GROUND_THRESHOLD
            /\ Abs(hist.pre.body.vel.y) < LOW_VELOCITY_THRESHOLD
            /\ i > 1
            /\ hist.obs.calls[i - 1].op = "setLinvel"
            /\ hist.obs.calls[i - 1].v.y = 0
            /\ body.vel.y = Div(JumpForce * U, PlayerMass)

\* an update that applied the jump impulse
C3_Witness == hist.events > 0 /\ JumpFired

C5_UnlockClearsDirections ==
    [][(input.isPointerLocked /\ ~input'.isPointerLocked) =>
          /\ \A a \in Directional : ~input'.actions[a]
          /\ \A a \in Actions \ Directional : input'.actions[a] = input.actions[a]]_vars

\* Action1 is set only while the pointer is locked: here it has outlived a release
C5_Witness == ~input.isPointerLocked /\ input.actions["ACTION_1"]

\* C6 (LoopSpec): the callbacks a tick has run are always the first ones of: every
\* update callback in registration order, then every render callback in registration
\* order; when the tick asks for the next frame it has run them all, once each.
C6_PhasesInOrder ==
    tick.pc # "idle" =>
        /\ Len(tick.log) <= Len(WholeTick(loop))
        /\ tick.log = SubSeq(WholeTick(loop), 1, Len(tick.log))
        /\ tick.pc = "request" => tick.log = WholeTick(loop)

\* a tick that has run two update callbacks and a render callback
C6_Witness ==
    /\ tick.pc = "request"
    /\ Len(loop.updateCallbacks) = 2
    /\ Len(loop.renderCallbacks) >= 1
    /\ Len(tick.log) >= 3

\* C7 (LoopSpec), as claimed: no step that leaves the loop stopped schedules an
\* animation frame.
C7_NoFrameAfterStop ==
    [][~loop'.isRunning => loop'.pending \subseteq loop.pending]_vars

\* the yaw a camera update with mouse delta d takes off, at a sensitivity
Turn(d, sensitivity) ==
    IF d = Vec2(0, 0) THEN 0 ELSE SmoothDelta(d.x) * sensitivity

\* C8 (CameraSpec), as claimed: the pitch stays strictly inside the clamp range.
C8_PitchStrictlyInside == Abs(cam.pitch) < PitchLimit

\* C8 (CameraSpec), amended: the pitch stays within the closed clamp range
\* [-(pi/2 - 0.1), pi/2 - 0.1], whose ends it can take, and so short of the vertical;
\* every camera update turns the yaw by the whole of its (smoothed) mouse delta.
C8_PitchWithinClamp ==
    /\ [](Abs(cam.pitch) <= PitchLimit /\ Abs(cam.pitch) < HalfPi)
    /\ [][hist'.events > hist.events =>
            cam'.yaw = cam.yaw - Turn(hist'.obs.read, camStore.sensitivity)]_vars

\* the pitch at the end of its range and the yaw beyond half a turn
C8_Witness == cam.pitch = PitchLimit /\ Abs(cam.yaw) > PI

\* C9 (RunSpec), as claimed: the horizontal speed at the end of a frame never exceeds
\* maxSpeed.
C9_NeverExceedsMaxSpeed == hist.events > 0 => Speed(body) <= MaxSpeed

ActionOf(code) == IF Mapped(code) THEN KeyActionMap[code] ELSE ""

\* C11 (InputSpec): an auto-repeat keydown leaves the input store as it was; a keydown
\* that is not a repeat sets the action its code is mapped to and changes no other
\* flag; a keyup clears the action its code is mapped to and changes no other flag; an
\* unmapped code changes nothing.
C11_RepeatIgnored ==
    [][/\ (hist'.key.type = "keydown" /\ hist'.key.repeat) => input' = input
       /\ (hist'.key.type = "keydown" /\ ~hist'.key.repeat) =>
              input' = [input EXCEPT !.actions =
                          [a \in Actions |-> input.actions[a] \/ a = ActionOf(hist'.key.code)]]
       /\ hist'.key.type = "keyup" =>
              input' = [input EXCEPT !.actions =
                          [a \in Actions |-> input.actions[a] /\ a # ActionOf(hist'.key.code)]]
      ]_vars

\* an auto-repeat keydown of the Forward key has arrived while Forward was not set
C11_Witness ==
    /\ hist.key = [type |-> "keydown", code |-> "KeyW", repeat |-> TRUE]
    /\ ~input.actions["FORWARD"]
    /\ input.isPointerLocked
\* the transform of a body, as a visual holds one
TransformOf(b) == [pos |-> b.pos, quaternion |-> b.rot]

\* C12 (PhysicsSpec): a call of step, whatever delta it is given, advances the world by
\* one tick, every body by one step of the engine's own timestep; afterwards the visual
\* of every pair whose body is not fixed has the body's position and orientation, and
\* the visual of every pair whose body is fixed is as it was before the call.
C12_StepSyncs ==
    [][physics'.call.op = "step" =>
          /\ physics'.ticks = physics.ticks + 1
          /\ Len(physics'.entities) = Len(physics.entities)
          /\ \A i \in DOMAIN physics.entities :
                /\ physics'.entities[i].mesh = physics.entities[i].mesh
                /\ physics'.entities[i].body = WorldStep(physics.entities[i].body)
                /\ IF physics.entities[i].body.fixed
                   THEN physics'.visuals[physics.entities[i].mesh]
                            = physics.visuals[physics.entities[i].mesh]
                   ELSE physics'.visuals[physics.entities[i].mesh]
                            = TransformOf(physics'.entities[i].body)]_vars

\* step, given a delta that is not the engine's timestep, has run on a fixed pair whose
\* visual the scene had moved away from the body and on a pair that is not fixed
C12_Witness ==
    /\ physics.call.op = "step"
    /\ physics.call.delta # WorldDt
    /\ \E i, j \in DOMAIN physics.entities :
          /\ physics.entities[i].body.fixed
          /\ physics.visuals[physics.entities[i].mesh] # TransformOf(physics.entities[i].body)
          /\ ~physics.entities[j].body.fixed
          /\ physics.entities[j].body.pos # VisualInit[physics.entities[j].mesh].pos

\* the rotation a call of a rotation helper asks for: the quaternion it is given, or
\* (0, sin(a/2), 0, cos(a/2)) for the angle a it is given
AskedRotation(call) ==
    IF call.op = "updateBodyYRotation"
    THEN [x |-> 0, y |-> Sin(Div(call.yRotation, 2)), z |-> 0,
          w |-> Cos(Div(call.yRotation, 2))]
    ELSE call.quaternion

\* the pairs of a PhysicsSystem whose visual is v
PairsOf(p, v) == {i \in DOMAIN p.entities : p.entities[i].mesh = v}

\* C13 (PhysicsSpec): a call of updateBodyRotation or updateBodyYRotation for a visual
\* that has no pair, or whose body is fixed, returns false and leaves every body as it
\* was; any other call returns true, gives the body of the visual's pair the rotation
\* asked for and leaves every other body, and every visual, as they were.
C13_RotationHelpers ==
    [][physics'.call.op \in {"updateBodyRotation", "updateBodyYRotation"} =>
          /\ physics'.visuals = physics.visuals
          /\ physics'.ticks = physics.ticks
          /\ IF \/ PairsOf(physics, physics'.call.mesh) = {}
                \/ \E i \in PairsOf(physics, physics'.call.mesh) :
                      physics.entities[i].body.fixed
             THEN /\ ~physics'.call.ret
                  /\ physics'.entities = physics.entities
             ELSE /\ physics'.call.ret
                  /\ physics'.entities =
                        [i \in DOMAIN physics.entities |->
                            IF physics.entities[i].mesh = physics'.call.mesh
                            THEN [physics.entities[i] EXCEPT
                                    !.body.rot = AskedRotation(physics'.call)]
                            ELSE physics.entities[i]]]_vars

\* updateBodyYRotation has returned true and written the yaw to the body of the
\* visual's pair, which is not fixed, while the other visual's pair is fixed
C13_Witness ==
    /\ physics.call.op = "updateBodyYRotation"
    /\ physics.call.ret
    /\ \E i, j \in DOMAIN physics.entities :
          /\ physics.entities[i].mesh = physics.call.mesh
          /\ physics.entities[i].body.rot = YRotation(physics.call.yRotation)
          /\ physics.entities[i].body.rot # IdentityRotation
          /\ physics.entities[j].body.fixed
\* the damping write of an update entered with velocity v
DampingWrite(v) ==
    [op |-> "setLinvel", v |-> Vec3(Mul(v.x, Damping), v.y, Mul(v.z, Damping))]

\* the last update ended with the damping write
Damps ==
    /\ hist.events > 0
    /\ hist.obs.calls # <<>>
    /\ hist.obs.calls[Len(hist.obs.calls)] = DampingWrite(hist.pre.body.vel)

\* C14 (PlayerSpec), as claimed: an update makes the damping write only when it was
\* entered with no directional flag set and with the body grounded.
C14_DampsOnlyIdleGrounded ==
    Damps =>
        /\ \A a \in Directional : ~hist.pre.input.actions[a]
        /\ IsGrounded(hist.pre.body)
\* the update phase of a frame entered with no directional flag set and a zero mouse
\* delta has ended
IdleFrame ==
    /\ tick.pc = "render"
    /\ hist.pre.input.mouseDelta = Vec2(0, 0)
    /\ \A a \in Directional : ~hist.pre.input.actions[a]

\* where the target position is from the player, by mode: the eye height above, or
\* behind the target orientation by the distance and above by the height
TargetOffset(mode, q) ==
    IF mode = "FIRST_PERSON" THEN Vec3(0, FpHeight, 0)
    ELSE Add3(Scale3(ForwardOf(q), -Distance), Vec3(0, Height, 0))

C16_NoImpulseWhenIdle ==
    (/\ hist.events > 0
     /\ \A a \in Directional \cup {"JUMP"} : ~hist.pre.input.actions[a])
        => \A i \in DOMAIN hist.obs.calls :
              /\ hist.obs.calls[i].op # "applyImpulse"
              /\ hist.obs.calls[i] = DampingWrite(hist.pre.body.vel)
              /\ IsGrounded(hist.pre.body)
\* the horizontal part of a vector
Horizontal(v) == Vec2(v.x, v.z)

Dot2(a, b) == a.x * b.x + a.y * b.y
Cross2(a, b) == a.x * b.y - a.y * b.x

\* two horizontal vectors point the same way, to within a hundredth of a radian
SameDirection(a, b) ==
    /\ Dot2(a, b) > 0
    /\ Abs(Cross2(a, b)) * 100 <= Dot2(a, b)

\* the last update was entered with Forward the only directional flag set
OnlyForward ==
    /\ hist.events > 0
    /\ \A a \in Directional : hist.pre.input.actions[a] = (a = "FORWARD")

\* the movement impulse of the last update: its first call on the body
MovementImpulse == hist.obs.calls[1].v

\* C17 (PlayerSpec), as claimed: with only Forward set the movement impulse has no
\* vertical component and points along the negated camera-forward vector, projected
\* to the horizontal plane.
C17_AlongNegatedForward ==
    OnlyForward =>
        /\ hist.obs.calls[1].op = "applyImpulse"
        /\ MovementImpulse.y = 0
        /\ SameDirection(Horizontal(MovementImpulse),
                         Horizontal(Negate3(player.cameraForward)))

\* C17 (PlayerSpec), amended: with only Forward set the movement impulse has no
\* vertical component and points along the camera-forward vector itself, projected to
\* the horizontal plane.
C17_AlongForward ==
    OnlyForward =>
        /\ hist.obs.calls[1].op = "applyImpulse"
        /\ MovementImpulse.y = 0
        /\ SameDirection(Horizontal(MovementImpulse), Horizontal(player.cameraForward))

\* only Forward set, under a camera that looks neither along the world's X axis nor
\* along its Z axis
C17_Witness ==
    /\ OnlyForward
    /\ player.cameraForward.x # 0
    /\ player.cameraForward.z # 0
    /\ Horizontal(MovementImpulse) # Vec2(0, 0)
\* the flags of the last update's entry do not cancel out
NonCancelling == hist.events > 0 /\ LocalDirection(hist.pre.input.actions) # Zero3

\* the flags of the last update's entry leave two orthogonal directions
Diagonal ==
    /\ hist.events > 0
    /\ LocalDirection(hist.pre.input.actions).x # 0
    /\ LocalDirection(hist.pre.input.actions).z # 0

\* a is b, to within two hundredths of b
Near(a, b) == Abs(a - b) * 50 <= Abs(b)

\* the component of v along the horizontal unit vector e
Along(v, e) == Div(Dot2(Horizontal(v), Horizontal(e)), U)

\* C18 (PlayerSpec): for every combination of directional flags that does not cancel
\* out, the movement impulse is horizontal with the magnitude moveSpeed * delta * 10;
\* with two orthogonal directions left, its components along the camera's forward and
\* right vectors each have 1/sqrt(2) of that magnitude (twice the square of each is the
\* square of the whole).
C18_DiagonalNormalized ==
    NonCancelling =>
        /\ hist.obs.calls[1].op = "applyImpulse"
        /\ MovementImpulse.y = 0
        /\ Abs(Length2(Horizontal(MovementImpulse)) - ImpulseScale(WorldDt))
              <= SpeedTolerance
        /\ Diagonal =>
              /\ Near(2 * Along(MovementImpulse, player.cameraForward) ^ 2,
                      ImpulseScale(WorldDt) ^ 2)
              /\ Near(2 * Along(MovementImpulse, player.cameraRight) ^ 2,
                      ImpulseScale(WorldDt) ^ 2)

\* Forward and Right held under a camera turned by 60 degrees
C18_Witness ==
    /\ Diagonal
    /\ hist.pre.input.actions["FORWARD"] /\ hist.pre.input.actions["RIGHT"]
    /\ ~hist.pre.input.actions["BACKWARD"] /\ ~hist.pre.input.actions["LEFT"]
    /\ player.cameraForward.x # 0
    /\ player.cameraForward.z # 0

\* C19: every Time.update leaves delta equal to the smaller of the real time
\* since the previous update and 0.1 s, so delta never exceeds 0.1 s
C19_DeltaClamped ==
    /\ [](loop.time.delta <= MaxDelta)
    /\ [][loop'.time # loop.time =>
            loop'.time.delta =
                Min(loop'.time.previousTime - loop.time.previousTime, MaxDelta)]_vars

\* an update after a pause longer than 0.1 s: the clock is behind real time
C19_Witness ==
    /\ loop.time.delta = MaxDelta
    /\ loop.time.previousTime = 30 * WorldDt
    /\ loop.time.elapsed = MaxDelta

\* C20: elapsed equals the real time accumulated since construction, pauses
\* longer than 0.1 s included
C20_ElapsedIsWallClock == loop.time.elapsed = loop.time.previousTime

Ran(op) == hist'.events # hist.events /\ hist'.obs.ops # <<>> /\ hist'.obs.ops[1] = op

\* C22: PlayerSystem.update without a body calls nothing on a body and leaves the
\* input store as it is; the update callback, when the body or the visual is
\* missing, steps physics and resets the mouse delta and does nothing else
C22_NoBodyNoOp ==
    [][/\ (Ran("player") /\ ~body.exists) =>
            /\ hist'.obs.calls = <<>>
            /\ input' = input
            /\ body' = body
       /\ (Ran("step") /\ (~body.exists \/ ~mesh.exists)) =>
            /\ hist'.obs.ops = <<"step", "input">>
            /\ hist'.obs.calls = <<>>
            /\ hist'.obs.resets = 1
            /\ input' = ResetMouseDelta(input)
            /\ cam' = cam
            /\ player' = player
            /\ mesh'.rotY = mesh.rotY /\ mesh'.visible = mesh.visible]_vars

\* a frame of a scene without a player body, Jump held and the mouse moved
C22_Witness ==
    /\ ~body.exists
    /\ hist.obs.ops = <<"step", "input">>
    /\ hist.pre.input.mouseDelta = Vec2(25, -25)
    /\ input.actions["JUMP"]
    /\ input.mouseDelta = Vec2(0, 0)

\* C23: CameraSystem.update with the camera disabled or without a body changes
\* neither the camera (yaw, pitch, target, pose, field of view) nor the player's
\* visual or body; in a whole frame with the camera disabled the camera and the
\* visual's facing and visibility stay as they were
C23_DisabledNoOp ==
    [][/\ (Ran("camera") /\ (~camStore.enabled \/ ~body.exists)) =>
            /\ cam' = cam
            /\ mesh' = mesh
            /\ body' = body
       /\ (Ran("step") /\ ~camStore.enabled) =>
            /\ cam' = cam
            /\ mesh'.rotY = mesh.rotY /\ mesh'.visible = mesh.visible]_vars

\* an update with the camera disabled while the mouse has moved
C23_Witness ==
    /\ hist.obs.ops = <<"camera">>
    /\ ~camStore.enabled
    /\ body.exists /\ mesh.exists
    /\ input.mouseDelta = Vec2(25, -25)

\* C24: once the scene has been torn down the PhysicsSystem holds none of its pairs,
\* and a later step leaves the scene's visuals as they were
C24_PairsGoWithScene ==
    /\ [](physics.disposed => physics.entities = <<>>)
    /\ [][(physics.disposed /\ physics'.call.op = "step") =>
            physics'.visuals = physics.visuals]_vars

\* the step is a keyboard event whose handler calls setAction(a, v)
SetsAction(a, v) ==
    /\ a = ActionOf(hist'.key.code)
    /\ \/ hist'.key.type = "keydown" /\ ~hist'.key.repeat /\ v
       \/ hist'.key.type = "keyup" /\ ~v

\* C25: the store starts with every action false, holds exactly one boolean per
\* action at all times, and setAction(a, v) makes the flag of a equal to v and
\* leaves every other flag, the mouse delta and the pointer-lock state as they were
C25_SetActionExact ==
    /\ (hist.events = 0 => \A a \in Actions : ~input.actions[a])
    /\ [](DOMAIN input.actions = Actions /\ \A a \in Actions : input.actions[a] \in BOOLEAN)
    /\ [][\A a \in Actions, v \in BOOLEAN :
            SetsAction(a, v) =>
                /\ input'.actions[a] = v
                /\ \A b \in Actions \ {a} : input'.actions[b] = input.actions[b]
                /\ input'.mouseDelta = input.mouseDelta
                /\ input'.isPointerLocked = input.isPointerLocked]_vars

\* Run has been set while Forward was held, the pointer locked and the mouse moved
C25_Witness ==
    /\ hist.key = [type |-> "keydown", code |-> "ShiftLeft", repeat |-> FALSE]
    /\ input.actions["RUN"] /\ input.actions["FORWARD"]
    /\ input.isPointerLocked
    /\ input.mouseDelta = Vec2(30, -20)

\* C26: after start() the seven listeners it registers are present; while the
\* pointer is locked the pointermove listener is present as well; after stop(),
\* whatever came before, no listener of the InputSystem remains and
\* isPointerLocked is false
C26_StopRemovesAll ==
    /\ [](hist.key.type = "start" =>
            {"keydown", "keyup", "pointerup", "pointerdown", "click",
             "pointerlockchange", "pointerlockerror"} \subseteq sys.listeners)
    /\ [](input.isPointerLocked => "pointermove" \in sys.listeners)
    /\ [](hist.key.type = "stop" => (sys.listeners = {} /\ ~input.isPointerLocked))
    /\ [][(hist'.key.type = "stop" /\ "pointermove" \in sys.listeners) =>
            "pointermove" \notin sys'.listeners]_vars

\* stop() has run after the pointer had been locked and had delivered a movement
C26_Witness ==
    /\ hist.key.type = "stop"
    /\ input.mouseDelta = Vec2(30, -20)
    /\ sys.listeners = {}
    /\ ~input.isPointerLocked

\* the calls among calls that are a jump impulse
JumpImpulses(calls) ==
    {i \in DOMAIN calls : calls[i].op = "applyImpulse" /\ calls[i].v.y > 0}

\* C27: between one keydown of the Jump key that is not a repeat and the next, however
\* many auto-repeat keydowns arrive and however many frames run, at most one player
\* update reads Jump set; an update applies a jump impulse only if it read Jump set,
\* and then exactly one
C27_OneJumpPerPress ==
    /\ [](hist.press.seen <= 1)
    /\ [][tick.pc = "update" =>
            /\ JumpImpulses(hist'.obs.calls) # {} =>
                    (input.actions["JUMP"] /\ hist'.press.seen = hist.press.seen + 1)
            /\ Cardinality(JumpImpulses(hist'.obs.calls)) <= 1]_vars

\* the Jump key held: its keydown, a frame that read Jump set, an auto-repeat keydown,
\* and a later frame that read Jump clear and applied no jump impulse
C27_Witness ==
    /\ tick.pc = "render"
    /\ hist.press = [repeats |-> 1, seen |-> 1]
    /\ ~hist.pre.input.actions["JUMP"]
    /\ JumpImpulses(hist.obs.calls) = {}

\* the update was entered with a horizontal speed above maxSpeed
ClampDue == LengthSq2(Vec2(hist.pre.body.vel.x, hist.pre.body.vel.z)) > MaxSpeed * MaxSpeed

\* C28 (PlayerSpec): the first call of an update is the movement impulse and its
\* vertical component is zero; when the clamp is due the second call is its setLinvel,
\* whose vertical component is the vertical velocity the body had when the movement
\* impulse had been applied, which is the one it entered the update with
C28_ClampKeepsVertical ==
    hist.events > 0 =>
        /\ hist.obs.calls[1].op = "applyImpulse"
        /\ hist.obs.calls[1].v.y = 0
        /\ ClampDue =>
            /\ hist.obs.calls[2].op = "setLinvel"
            /\ hist.obs.calls[2].v.y = ApplyImpulse(hist.pre.body, hist.obs.calls[1].v).vel.y
            /\ hist.obs.calls[2].v.y = hist.pre.body.vel.y

\* a clamp of a body that was rising, with a movement key held
C28_Witness ==
    /\ hist.events > 0
    /\ ClampDue
    /\ hist.pre.body.vel.y = 200
    /\ hist.pre.input.actions["FORWARD"]
    /\ hist.obs.calls[2] = [op |-> "setLinvel", v |-> Vec3(8 * U, 200, -6 * U)]

\* normalize(cameraForward * (-localZ) + cameraRight * localX) for the flags of the last
\* update's entry, scaled to the impulse of one frame
ProjectedImpulse ==
    Scale3(Normalize3(Add3(Scale3(player.cameraForward,
                                  -LocalDirection(hist.pre.input.actions).z),
                           Scale3(player.cameraRight,
                                  LocalDirection(hist.pre.input.actions).x))),
           ImpulseScale(WorldDt))

\* the directional flags set at the last update's entry are exactly those of held
OnlyHeld(held) ==
    /\ hist.events > 0
    /\ \A a \in Directional : hist.pre.input.actions[a] = (a \in held)

\* the camera vectors PlayerSystem starts with: forward = -Z, right = +X
DefaultBasis ==
    /\ player.cameraForward = Vec3(0, 0, -U)
    /\ player.cameraRight = Vec3(U, 0, 0)

\* C29 (PlayerSpec): for flags that do not cancel out the movement impulse is, to
\* within rounding, normalize(cameraForward * (-localZ) + cameraRight * localX) scaled
\* by moveSpeed * delta * 10; under the default basis Forward alone gives x = y = 0 and
\* z < 0, and Forward with Right gives x > 0, y = 0 and z < 0
C29_CameraRelativeImpulse ==
    /\ NonCancelling =>
        /\ hist.obs.calls[1].op = "applyImpulse"
        /\ MovementImpulse.y = 0
        /\ Abs(MovementImpulse.x - ProjectedImpulse.x) <= SpeedTolerance
        /\ Abs(MovementImpulse.z - ProjectedImpulse.z) <= SpeedTolerance
    /\ (DefaultBasis /\ OnlyHeld({"FORWARD"})) =>
        (MovementImpulse.x = 0 /\ MovementImpulse.y = 0 /\ MovementImpulse.z < 0)
    /\ (DefaultBasis /\ OnlyHeld({"FORWARD", "RIGHT"})) =>
        (MovementImpulse.x > 0 /\ MovementImpulse.y = 0 /\ MovementImpulse.z < 0)

\* Backward and Left held under a camera turned by 60 degrees
C29_Witness ==
    /\ OnlyHeld({"BACKWARD", "LEFT"})
    /\ player.cameraForward.x # 0
    /\ player.cameraForward.z # 0
    /\ MovementImpulse.x # 0
    /\ MovementImpulse.z # 0

\* C30: every camera update that gets past its guard in FirstPerson or ThirdPerson
\* mode, alone or within a frame, leaves the visual's rotation.y equal to the camera
\* yaw and the body's rotation equal to the rotation about Y by that angle
C30_FacingAgrees ==
    [][((Ran("camera") \/ Ran("step")) /\ ReachesPhysics(camStore, body) /\ mesh.exists) =>
          /\ mesh'.rotY = cam'.yaw
          /\ body'.rot = YRotation(cam'.yaw)]_vars

\* the most an angle turns in one camera update: 20 x sensitivity x 0.01 rad
MaxTurn(sensitivity) == MouseClamp * sensitivity

\* a delta component cut to [-20, 20]
Within20(d) == Max(-MouseClamp, Min(MouseClamp, d))

C32_OneFramePending ==
    /\ [](Cardinality(loop.pending) <= 1)
    /\ [][loop.isRunning /\ hist'.events > hist.events /\ loop'.isRunning =>
            loop'.pending \subseteq loop.pending]_vars

\* an animation frame fires on a loop that is stopped and stays so
FiresStopped ==
    /\ tick.pc = "idle"
    /\ ~loop.isRunning /\ ~loop'.isRunning
    /\ loop'.pending # loop.pending

\* C33: a tick that begins while the loop is stopped (after a stop(), before the next
\* start()) returns at once: it invokes no update and no render callback and leaves
\* the clock alone; a tick gets past its first line only on a running loop
C33_StoppedTickIdle ==
    /\ [][FiresStopped =>
            /\ tick' = TickInit
            /\ loop'.time = loop.time
            /\ loop'.rafId = loop.rafId]_vars
    /\ [][tick.pc = "idle" /\ tick'.pc # "idle" => loop.isRunning]_vars

\* the frame requested at the end of a tick whose callback stopped the loop has
\* fired: the loop is stopped, rafId still names that frame, nothing is outstanding
C33_Witness ==
    /\ ~loop.isRunning
    /\ loop.rafId # 0
    /\ loop.pending = {}
    /\ tick = TickInit
    /\ Len(loop.updateCallbacks) > 0

\* C34: an action flag records the last key transition of any code mapped to it: a
\* keydown that is not a repeat sets it, and a keyup clears it, also while another
\* code mapped to the same action is still held
C34_LastTransitionWins ==
    [][Mapped(hist'.key.code) =>
          /\ (hist'.key.type = "keydown" /\ ~hist'.key.repeat) =>
                input'.actions[KeyActionMap[hist'.key.code]]
          /\ hist'.key.type = "keyup" =>
                ~input'.actions[KeyActionMap[hist'.key.code]]]_vars

\* KeyW and ArrowUp both held, then KeyW released: ArrowUp is held and Forward is clear
C34_Witness ==
    /\ hist.key = [type |-> "keyup", code |-> "KeyW", repeat |-> FALSE]
    /\ hist.was = {"KeyW", "ArrowUp"}
    /\ hist.down = {"ArrowUp"}
    /\ ~input.actions["FORWARD"]

\* C35: setPointerLocked called with the value the store holds changes nothing: not
\* as a function of any store the program reaches, and not in InputSystem.stop or on
\* a pointer-lock error while unlocked, which leave the flags, the mouse delta and
\* the lock state as they were; a keydown sets its flag with the pointer unlocked as
\* with it locked
C35_LockOnlyOnChange ==
    /\ [](SetPointerLocked(input, input.isPointerLocked) = input)
    /\ [][(hist'.key.type \in {"stop", "lockerror"} /\ ~input.isPointerLocked) =>
            input' = input]_vars
    /\ [][(hist'.key.type = "keydown" /\ ~hist'.key.repeat /\ Mapped(hist'.key.code)) =>
            /\ input'.isPointerLocked = input.isPointerLocked
            /\ input'.actions[KeyActionMap[hist'.key.code]]]_vars

\* stop() on an unlocked pointer with Forward and Left set: both are still set
C35_Witness ==
    /\ hist.key.type = "stop"
    /\ ~input.isPointerLocked
    /\ input.actions["FORWARD"]
    /\ input.actions["LEFT"]

\* C36: a pointer-button press sets its mapped action when the pointer is locked and
\* changes nothing when it is not; a release clears the mapped action locked or not;
\* so Action1 goes from false to true only on a press under the lock
C36_PressOnlyLocked ==
    /\ [][hist'.key.type = "pointerdown" =>
            input' = IF Mapped(hist'.key.code) /\ input.isPointerLocked
                     THEN [input EXCEPT !.actions[KeyActionMap[hist'.key.code]] = TRUE]
                     ELSE input]_vars
    /\ [][(hist'.key.type = "pointerup" /\ Mapped(hist'.key.code)) =>
            input' = [input EXCEPT !.actions[KeyActionMap[hist'.key.code]] = FALSE]]_vars
    /\ [][(~input.actions["ACTION_1"] /\ input'.actions["ACTION_1"]) =>
            (input.isPointerLocked /\ hist'.key.type = "pointerdown")]_vars

\* the left button pressed with the pointer unlocked: Action1 is clear
C36_Witness ==
    /\ hist.key = [type |-> "pointerdown", code |-> "Mouse1", repeat |-> FALSE]
    /\ ~input.isPointerLocked
    /\ ~input.actions["ACTION_1"]

\* C37: an update in which the jump impulse fires returns the body with the
\* horizontal velocity it entered with, directional flags set or not: the setLinvel
\* before the jump impulse writes the x and z read at entry, over that update's
\* movement impulse and over its clamp, and no later call writes them again
C37_JumpRestoresHorizontal ==
    (hist.events > 0 /\ JumpFired) =>
        /\ body.vel.x = hist.pre.body.vel.x
        /\ body.vel.z = hist.pre.body.vel.z
        /\ hist.obs.calls[Len(hist.obs.calls)] = JumpImpulse
        /\ hist.obs.calls[Len(hist.obs.calls) - 1] =
              [op |-> "setLinvel",
               v |-> Vec3(hist.pre.body.vel.x, 0, hist.pre.body.vel.z)]

\* a jump with Forward held from a body faster than maxSpeed: an impulse that is not
\* zero, the clamp, the jump, and the body leaves at its entry speed of 15
C37_Witness ==
    /\ hist.events > 0
    /\ JumpFired
    /\ hist.pre.input.actions["FORWARD"]
    /\ MovementImpulse # Zero3
    /\ ClampDue
    /\ Len(hist.obs.calls) = 4
    /\ body.vel.x = 12 * U
    /\ body.vel.z = 9 * U

OppositeHeld ==
    /\ OnlyHeld({"FORWARD", "BACKWARD"}) \/ OnlyHeld({"LEFT", "RIGHT"})
    /\ ~hist.pre.input.actions["JUMP"]

\* C39: with Forward and Backward both set, or Left and Right both set, and nothing
\* else, the movement impulse of the update is the zero vector, and the update ends
\* with the idle damping write exactly when the body is grounded: the body then leaves
\* with the horizontal velocity it entered with scaled by the damping factor
C39_OppositeFlagsCancel ==
    OppositeHeld =>
        /\ hist.obs.calls[1] = [op |-> "applyImpulse", v |-> Zero3]
        /\ Damps <=> IsGrounded(hist.pre.body)
        /\ IsGrounded(hist.pre.body) =>
              body.vel = Vec3(Mul(hist.pre.body.vel.x, Damping), hist.pre.body.vel.y,
                              Mul(hist.pre.body.vel.z, Damping))
        /\ ~IsGrounded(hist.pre.body) =>
              \A i \in DOMAIN hist.obs.calls :
                  hist.obs.calls[i] # DampingWrite(hist.pre.body.vel)

\* Left and Right held on a grounded body moving at (3, 0, 4): it leaves at (2.7, 0, 3.6)
C39_Witness ==
    /\ OnlyHeld({"LEFT", "RIGHT"})
    /\ ~hist.pre.input.actions["JUMP"]
    /\ IsGrounded(hist.pre.body)
    /\ hist.pre.body.vel = Vec3(3 * U, 0, 4 * U)
    /\ Damps
    /\ body.vel = Vec3(2700, 0, 3600)

====
